---- MODULE Spec2Model ----
(***************************************************************************)
(* Model of the link scraper: the score-sharded LinkRepository            *)
(* (repositories/LinkRepository.ts), the retrying, concurrency-gated       *)
(* fetcher and the scrape job of LinkScraper (core/scrapper.ts), and the   *)
(* POST /scrape handler that starts jobs (api/server.ts).                  *)
(*                                                                         *)
(* Scores are kept in hundredths: the source's 0.3 and 0.7 are 30 and 70.  *)
(***************************************************************************)
EXTENDS Integers, Sequences, FiniteSets, TLC

\* ------------------------------------------------------------------ bounds
\* Cap on the number of ulid() calls (statement executions) explored.
MaxIds == 4
\* Longest batch handed to bulkInsert by a direct caller.
MaxBatch == 2

\* ------------------------------------------------------- program constants
\* determineShard: score >= 0.7 is "high", score >= 0.3 is "medium".
HighMin == 70
MediumMin == 30

\* ------------------------------------------------------------------ inputs
\* Urls are sequences of characters.
Url_about == <<"h", "t", "t", "p", "s", ":", "/", "/", "x", ".", "g", "o", "v", "/", "a", "b", "o", "u", "t">>
Url_report == <<"h", "t", "t", "p", "s", ":", "/", "/", "x", ".", "g", "o", "v", "/", "r", "e", "p", "o", "r", "t", ".", "p", "d", "f">>
Urls == {Url_about, Url_report}
\* One score below 0.3, both ends of the medium range, and the 0.7 boundary.
Scores == {29, 30, 69, 70}

\* Keywords and type that the sample links carry for each score.
KeywordsOf(score) ==
  CASE score = 29 -> << >>
    [] score = 30 -> <<"contact">>
    [] score = 69 -> <<"budget">>
    [] OTHER -> <<"acfr", "document">>

TypeOf(score) ==
  CASE score = 30 -> "contact"
    [] score = 70 -> "document"
    [] OTHER -> "general"

\* ScrapedLinkWithParent values offered to the repository.
Links ==
  {[url |-> u, score |-> s, keywords |-> KeywordsOf(s), type |-> TypeOf(s)] :
     u \in Urls, s \in Scores}

Batches == UNION {[1..n -> Links] : n \in 1..MaxBatch}

\* A link whose `type` is undefined (the type annotation is erased at run
\* time): better-sqlite3 cannot bind the value and stmt.run throws a TypeError.
Undefined == "undefined"
Unbindable ==
  {[url |-> Url_about, score |-> 70, keywords |-> KeywordsOf(70),
    type |-> Undefined]}
\* What the callers of SpecWrite offer: a well-formed link of the low shard
\* and one of the high shard, where the unbindable link goes, and that link.
Offered ==
  {l \in Links : l.url = Url_report /\ l.score \in {29, 70}} \cup Unbindable
OfferedBatches == UNION {[1..n -> Offered] : n \in 1..MaxBatch}

\* --------------------------------------------------------------- the store
\* Object.entries(shardedLinks) visits the shards in this order.
ShardOrder == <<"high", "medium", "low">>
ShardNames == {"high", "medium", "low"}

VARIABLES
  tables,   \* shard name -> set of rows: links_high, links_medium, links_low
  nextId,   \* the next value ulid() returns (unique, increasing)
  runs,     \* log of the committed statement executions: <<id, link>> in order
  aborted   \* the bulkInsert calls that threw: the executions rolled back
            \* and the links of the batch, in the order of the transaction

storeVars == <<tables, nextId, runs, aborted>>

VARIABLES
  scraperOf,       \* job -> the LinkScraper instance whose scrape() it runs
  pc,              \* job -> where the job is in scrape / fetchHtml
  attempt,         \* job -> fetchHtml's local `attempt`
  calls,           \* job -> fetchWithBrowserInstance calls of its fetchHtml
  waits,           \* job -> the backoff delays fetchHtml has slept, in order
  lastError,       \* job -> kind of the last error a browser attempt threw
  outcome,         \* job -> whether scrape is returning or throwing
  handle,          \* job -> fetchWithBrowserInstance's local `browser`
  http,            \* job -> what the HTTP GET of its fetchHtml came back with
  activeRequests,  \* scraper -> this.activeRequests
  browser,         \* scraper -> this.browser (NoBrowser is null)
  openBrowsers,    \* scraper -> launched browsers that are still connected
  everLaunched,    \* scraper -> whether it has launched a browser
  pages,           \* the browser pages that are open
  result,          \* job -> what its scrape() resolves with: << >> or <<links>>
  reply            \* job -> the POST /scrape request that called its scrape()

VARIABLES
  html,            \* the page handed to processHtml: its a[href] elements
  outputs,         \* what processHtml has returned for it: << >> or <<result>>
  response         \* the answer of GET /links to the request last served
                   \* since the store changed, with the query it answered

pageVars == <<html, outputs, response>>

\* No request has been served.  `asked` holds the minScore and page parameters
\* as the client sent them, `queries` the number of statements the handler
\* ran on the store, `results` the records of the body.
\* The JSON value null (a value without a member), and the body of an
\* exchange no response was sent for.
Null == << >>
NoBody == << >>

\* new HttpError(message, statusCode), or an Error that is none, for which
\* the handler takes 500: the exception with the stack trace recorded where
\* it was constructed.
Exception(message, statusCode) ==
  [message |-> message, statusCode |-> statusCode,
   stack |-> <<"Error: ", message, "\n    at ", "server.ts">>]

\* The errorHandler that reports the request and, outside production, the
\* stack trace of the exception in `data`.
errorHandler_WithStack(err) ==
  [status |-> err.statusCode,
   body |-> [data |-> [statusCode |-> err.statusCode, stack |-> err.stack],
             message |-> err.message, error |-> TRUE]]

\* errorHandler: res.status(statusCode).json({ data: null, message, error })
errorHandler(err) ==
  [status |-> err.statusCode,
   body |-> [data |-> Null, message |-> err.message, error |-> TRUE]]

NoResponse ==
  [route |-> "none", status |-> 0, message |-> "", error |-> FALSE,
   body |-> NoBody,
   asked |-> << >>, id |-> 0, queries |-> 0,
   minScore |-> 0, keyword |-> << >>, page |-> 0,
   results |-> << >>, totalResultsCount |-> 0, totalPages |-> 0]

\* The locals of a job's fetchHtml and fetchWithBrowserInstance frames.
locals == <<attempt, calls, waits, lastError, handle, http>>
\* The fields of a LinkScraper.
fields == <<activeRequests, browser>>
\* The browsers and pages outside the program.
world == <<openBrowsers, everLaunched, pages>>

\* What scrape() hands back and the request that waits for it.
handed == <<result, reply>>

jobVars == <<scraperOf, pc, outcome, locals, fields, world, handed>>

\* What no step inside fetchHtml changes.
fixed == <<scraperOf, pageVars, handed>>

vars == <<storeVars, jobVars, pageVars>>

links_high == tables["high"]
links_medium == tables["medium"]
links_low == tables["low"]

\* The view `links`: UNION ALL of the three shard tables.
links == links_high \cup links_medium \cup links_low

\* CHECK (score ...) of each shard table.
RangeCheck(shard, score) ==
  CASE shard = "high" -> score >= 70
    [] shard = "medium" -> score >= 30 /\ score < 70
    [] OTHER -> score < 30

\* A determineShard whose two boundaries are exclusive.
determineShard_Strict(score) ==
  IF score > HighMin THEN "high"
  ELSE IF score > MediumMin THEN "medium"
  ELSE "low"

\* LinkRepository.determineShard.
determineShard(score) ==
  IF score >= HighMin THEN "high"
  ELSE IF score >= MediumMin THEN "medium"
  ELSE "low"

\* JSON.stringify of a string array, as the sequence of its tokens.
RECURSIVE JoinTokens(_)
JoinTokens(kws) ==
  IF Len(kws) = 0 THEN << >>
  ELSE IF Len(kws) = 1 THEN <<"\"", kws[1], "\"">>
  ELSE <<"\"", kws[1], "\"", ",">> \o JoinTokens(Tail(kws))

\* A serialisation that writes the array back to front.
JSONstringify_Reversed(kws) ==
  <<"[">> \o JoinTokens([k \in 1..Len(kws) |-> kws[Len(kws) + 1 - k]]) \o <<"]">>

JSONstringify(kws) == <<"[">> \o JoinTokens(kws) \o <<"]">>

\* The row bound to the statement's placeholders (anchor_text and parent_url,
\* which no constraint of the tables reads, are left out).
Row(id, link) ==
  [id |-> id, url |-> link.url, score |-> link.score,
   keywords |-> JSONstringify(link.keywords), type |-> link.type]

\* INSERT OR REPLACE: the conflicting row is deleted, the new row is stored.
InsertOrReplace(tbls, shard, row) ==
  IF ~RangeCheck(shard, row.score) THEN tbls
  ELSE [tbls EXCEPT ![shard] =
          {r \in @ : r.url # row.url /\ r.id # row.id} \cup {row}]

\* A write that empties the shard before it stores the row.
InsertOrIgnore_ClearShard(tbls, shard, row) ==
  IF ~RangeCheck(shard, row.score) THEN tbls
  ELSE [tbls EXCEPT ![shard] = {row}]

\* INSERT OR IGNORE INTO links_<shard>: a row that violates the primary key,
\* UNIQUE(url) or the CHECK of that table is skipped, any other row is stored.
InsertOrIgnore(tbls, shard, row) ==
  IF \/ \E r \in tbls[shard] : r.url = row.url \/ r.id = row.id
     \/ ~RangeCheck(shard, row.score)
  THEN tbls
  ELSE [tbls EXCEPT ![shard] = @ \cup {row}]

\* shardedLinks: the batch grouped by shard, each group in batch order, the
\* groups concatenated in the order the transaction visits them.
RECURSIVE GroupByShard(_, _)
GroupByShard(batch, k) ==
  IF k > Len(ShardOrder) THEN << >>
  ELSE SelectSeq(batch, LAMBDA l : determineShard(l.score) = ShardOrder[k])
         \o GroupByShard(batch, k + 1)

\* The statement executions of one transaction, applied in order.
RECURSIVE RunAll(_, _, _)
RunAll(tbls, id, ordered) ==
  IF Len(ordered) = 0 THEN tbls
  ELSE RunAll(InsertOrIgnore(tbls, determineShard(ordered[1].score),
                             Row(id, ordered[1])),
              id + 1, Tail(ordered))

RECURSIVE LogAll(_, _)
LogAll(id, ordered) ==
  IF Len(ordered) = 0 THEN << >>
  ELSE <<[id |-> id, link |-> ordered[1]]>> \o LogAll(id + 1, Tail(ordered))

\* stmt.run binds its arguments before it executes the statement.
Bindable(link) == link.type # Undefined

\* Position of the first stmt.run of the transaction that throws, 0 if none.
FirstThrow(ordered) ==
  LET failing == {i \in 1..Len(ordered) : ~Bindable(ordered[i])} IN
    IF failing = {} THEN 0
    ELSE CHOOSE i \in failing : \A k \in failing : i <= k

\* A transaction that keeps what it wrote before the exception.
Rollback_Keep(before, written) == written

\* db.transaction: an exception in the function rolls the transaction back.
Rollback(before, written) == before

\* LinkRepository.bulkInsert as a state change of the store.  Nothing in it is
\* awaited: the whole call, transaction included, runs in one turn of the
\* event loop.  An exception of stmt.run is not caught: it leaves the
\* transaction function, and bulkInsert rejects.
bulkInsert(batch) ==
  LET ordered == GroupByShard(batch, 1)
      k == FirstThrow(ordered)
      ran == IF k = 0 THEN ordered ELSE SubSeq(ordered, 1, k - 1)
      written == RunAll(tables, nextId, ran)
  IN IF k = 0
     THEN /\ tables' = written
          /\ nextId' = nextId + Len(batch)
          /\ runs' = runs \o LogAll(nextId, ordered)
          /\ UNCHANGED aborted
     ELSE /\ tables' = Rollback(tables, written)
          /\ nextId' = nextId + k
          /\ aborted' = Append(aborted, [ran |-> LogAll(nextId, ran),
                                          batch |-> ordered])
          /\ UNCHANGED runs

\* LinkRepository.insertLink.
insertLink(link) ==
  /\ tables' = InsertOrIgnore(tables, determineShard(link.score),
                              Row(nextId, link))
  /\ nextId' = nextId + 1
  /\ runs' = Append(runs, [id |-> nextId, link |-> link])
  /\ UNCHANGED aborted

StoreInit ==
  /\ tables = [s \in ShardNames |-> {}]
  /\ nextId = 1
  /\ runs = << >>
  /\ aborted = << >>

\* ------------------------------------------------- what the log determines
RunsOf(u) == {i \in 1..Len(runs) : runs[i].link.url = u}
ScoresSupplied(u) == {runs[i].link.score : i \in RunsOf(u)}
FirstId(u) == runs[CHOOSE i \in RunsOf(u) : \A k \in RunsOf(u) : i <= k].id
LastSupplied(u) ==
  runs[CHOOSE i \in RunsOf(u) : \A k \in RunsOf(u) : i >= k].link
RowsOf(u) == {<<s, r>> \in ShardNames \X links : r \in tables[s] /\ r.url = u}

\* ------------------------------------------------------ extraction, scoring
\* Strings of the page (hrefs, urls, anchor texts) are sequences of characters.
UpperChars == <<"A", "B", "C", "D", "E", "F", "G", "H", "I", "J", "K", "L", "M", "N", "O", "P", "Q", "R", "S", "T", "U", "V", "W", "X", "Y", "Z">>
LowerChars == <<"a", "b", "c", "d", "e", "f", "g", "h", "i", "j", "k", "l", "m", "n", "o", "p", "q", "r", "s", "t", "u", "v", "w", "x", "y", "z">>

\* The lower-case letter of each upper-case one.
LowerOf ==
  [c \in {UpperChars[k] : k \in 1..Len(UpperChars)} |->
     LowerChars[CHOOSE k \in 1..Len(UpperChars) : UpperChars[k] = c]]

\* Any other character stands.
Lower(c) == IF c \in DOMAIN LowerOf THEN LowerOf[c] ELSE c

\* String.prototype.toLowerCase
RECURSIVE toLowerCase(_)
toLowerCase(s) ==
  IF Len(s) = 0 THEN << >>
  ELSE <<Lower(s[1])>> \o toLowerCase(Tail(s))

\* String.prototype.includes
includes(s, part) ==
  \E i \in 0..(Len(s) - Len(part)) :
    \A k \in 1..Len(part) : s[i + k] = part[k]

startsWith(s, part) ==
  Len(part) <= Len(s) /\ \A k \in 1..Len(part) : s[k] = part[k]

endsWith(s, part) ==
  /\ Len(part) <= Len(s)
  /\ \A k \in 1..Len(part) : s[Len(s) - Len(part) + k] = part[k]

IsSpace(c) == c = " "

\* String.prototype.trim
RECURSIVE trimStart(_)
trimStart(s) ==
  IF Len(s) > 0 /\ IsSpace(s[1]) THEN trimStart(Tail(s)) ELSE s

RECURSIVE trimEnd(_)
trimEnd(s) ==
  IF Len(s) > 0 /\ IsSpace(s[Len(s)])
  THEN trimEnd(SubSeq(s, 1, Len(s) - 1)) ELSE s

trim(s) == trimEnd(trimStart(s))

\* The page being scraped, and what its anchors point to.
BaseUrl == <<"h", "t", "t", "p", "s", ":", "/", "/", "x", ".", "g", "o", "v", "/">>
Scheme == <<"h", "t", "t", "p", "s", ":", "/", "/">>
InvalidHref == <<"h", "t", "t", "p", ":", "/", "/", "[">>

Href_about == <<"/", "a", "b", "o", "u", "t">>
Href_aboutRel == <<"a", "b", "o", "u", "t">>
Href_report == <<"r", "e", "p", "o", "r", "t", ".", "p", "d", "f">>
Href_docpdf == <<"/", "d", "o", "c", "u", "m", "e", "n", "t", ".", "p", "d", "f">>
Href_contact == <<"/", "c", "o", "n", "t", "a", "c", "t", "-", "u", "s">>
Href_contactAbs == <<"h", "t", "t", "p", "s", ":", "/", "/", "x", ".", "g", "o", "v", "/", "c", "o", "n", "t", "a", "c", "t", "-", "u", "s">>
Href_budget == <<"/", "b", "u", "d", "g", "e", "t">>

\* The index of the first "/" of s at or after position i (0 when none).
RECURSIVE SlashFrom(_, _)
SlashFrom(s, i) ==
  IF i > Len(s) THEN 0
  ELSE IF s[i] = "/" THEN i
  ELSE SlashFrom(s, i + 1)

\* Where the path of an absolute url ends: before "?" or "#", or at its end.
RECURSIVE PathEnd(_, _)
PathEnd(s, i) ==
  IF i > Len(s) THEN Len(s)
  ELSE IF s[i] \in {"?", "#"} THEN i - 1
  ELSE PathEnd(s, i + 1)

\* new URL(url).origin and new URL(url).pathname of an absolute https url.
Origin(url) == SubSeq(url, 1, SlashFrom(url, Len(Scheme) + 1) - 1)

pathname(url) ==
  LET from == SlashFrom(url, Len(Scheme) + 1)
  IN SubSeq(url, from, PathEnd(url, from))

\* new URL(href, baseUrl) throws on an href that cannot be parsed.
Parses(href) == ~includes(href, <<"[">>)

\* new URL(href, baseUrl).toString(): an absolute href stands, a rooted one is
\* put on the base's origin, any other one replaces the base's last segment.
Resolve(href, baseUrl) ==
  IF startsWith(href, Scheme) THEN href
  ELSE IF startsWith(href, <<"/">>) THEN Origin(baseUrl) \o href
  ELSE LET path == pathname(baseUrl)
           dir == IF endsWith(path, <<"/">>) THEN path ELSE <<"/">>
       IN Origin(baseUrl) \o dir \o href

\* KEYWORD_WEIGHTS, in key order, weights in hundredths.
KEYWORD_WEIGHTS ==
  << [kw |-> "acfr", weight |-> 300],
     [kw |-> "budget", weight |-> 250],
     [kw |-> "finance director", weight |-> 200],
     [kw |-> "contact", weight |-> 200],
     [kw |-> "document", weight |-> 150] >>

\* The characters of a keyword or pattern.
Chars(word) ==
  CASE word = "acfr" -> <<"a", "c", "f", "r">>
    [] word = "budget" -> <<"b", "u", "d", "g", "e", "t">>
    [] word = "finance director" -> <<"f", "i", "n", "a", "n", "c", "e", " ", "d", "i", "r", "e", "c", "t", "o", "r">>
    [] word = "contact" -> <<"c", "o", "n", "t", "a", "c", "t">>
    [] word = "document" -> <<"d", "o", "c", "u", "m", "e", "n", "t">>
    [] word = "/contact" -> <<"/", "c", "o", "n", "t", "a", "c", "t">>
    [] word = "contact-us" -> <<"c", "o", "n", "t", "a", "c", "t", "-", "u", "s">>
    [] word = "staff-directory" -> <<"s", "t", "a", "f", "f", "-", "d", "i", "r", "e", "c", "t", "o", "r", "y">>
    [] word = "leadership-team" -> <<"l", "e", "a", "d", "e", "r", "s", "h", "i", "p", "-", "t", "e", "a", "m">>
    [] word = ".pdf" -> <<".", "p", "d", "f">>
    [] word = ".doc" -> <<".", "d", "o", "c">>
    [] word = ".docx" -> <<".", "d", "o", "c", "x">>
    [] word = ".xls" -> <<".", "x", "l", "s">>
    [] word = ".xlsx" -> <<".", "x", "l", "s", "x">>
    [] word = ".csv" -> <<".", "c", "s", "v">>

\* Array.prototype.includes on a keyword list.
Has(keywords, kw) == \E i \in 1..Len(keywords) : keywords[i] = kw

Weight(kw) ==
  IF \E i \in 1..Len(KEYWORD_WEIGHTS) : KEYWORD_WEIGHTS[i].kw = kw
  THEN KEYWORD_WEIGHTS[CHOOSE i \in 1..Len(KEYWORD_WEIGHTS) :
                         KEYWORD_WEIGHTS[i].kw = kw].weight
  ELSE 0

\* /\.(pdf|docx?|xlsx?|csv)$/i.test(link.url)
DocumentExtensions == {".pdf", ".doc", ".docx", ".xls", ".xlsx", ".csv"}
isDocument(url) ==
  \E ext \in DocumentExtensions : endsWith(toLowerCase(url), Chars(ext))

\* LinkScraper.detectKeywords
detectKeywords(link) ==
  LET combined == toLowerCase(link.anchorText \o <<" ">> \o link.url)
      matched == SelectSeq([i \in 1..Len(KEYWORD_WEIGHTS) |-> KEYWORD_WEIGHTS[i].kw],
                           LAMBDA kw : includes(combined, Chars(kw)))
  IN IF isDocument(link.url) THEN Append(matched, "document") ELSE matched

contactPatterns == {"/contact", "contact-us", "staff-directory", "leadership-team"}

\* A determineLinkType that looks at the keywords before the path.
determineLinkType_KeywordsFirst(url, keywords) ==
  IF Has(keywords, "document") THEN "document"
  ELSE IF Has(keywords, "contact") THEN "contact"
  ELSE IF \E p \in contactPatterns : includes(pathname(url), Chars(p))
  THEN "contact"
  ELSE "general"

\* LinkScraper.determineLinkType
determineLinkType(url, keywords) ==
  IF \E p \in contactPatterns : includes(pathname(url), Chars(p))
  THEN "contact"
  ELSE IF Has(keywords, "document") THEN "document"
  ELSE IF Has(keywords, "contact") THEN "contact"
  ELSE "general"

\* typeMultipliers, in tenths.
typeMultipliers(type) ==
  CASE type = "document" -> 12
    [] type = "contact" -> 15
    [] OTHER -> 10

RECURSIVE SumWeights(_)
SumWeights(keywords) ==
  IF Len(keywords) = 0 THEN 0
  ELSE Weight(keywords[1]) + SumWeights(Tail(keywords))

\* LinkScraper.calculateScore, in hundredths.
calculateScore(keywords, type) ==
  (SumWeights(keywords) * typeMultipliers(type)) \div 10

\* The callback of rankLinks' map.
ScoreLink(link) ==
  LET keywords == detectKeywords(link)
      type == determineLinkType(link.url, keywords)
  IN [url |-> link.url, anchor_text |-> link.anchorText, keywords |-> keywords,
      score |-> calculateScore(keywords, type), type |-> type]

\* A map whose callback lets the position of a link into its score.
MapScore_Positional(cands) ==
  [i \in 1..Len(cands) |->
     [ScoreLink(cands[i]) EXCEPT !.score = @ + (i - 1) * 50]]

\* links.map(...)
MapScore(cands) == [i \in 1..Len(cands) |-> ScoreLink(cands[i])]

\* An insertion that puts a link before the links of equal score.
InsertByScore_Unstable(sorted, x) ==
  LET before == SelectSeq(sorted, LAMBDA y : y.score > x.score)
      after == SelectSeq(sorted, LAMBDA y : y.score <= x.score)
  IN before \o <<x>> \o after

\* One step of the stable sort with comparator b.score - a.score: x goes
\* behind every link whose score is not lower.
InsertByScore(sorted, x) ==
  LET before == SelectSeq(sorted, LAMBDA y : y.score >= x.score)
      after == SelectSeq(sorted, LAMBDA y : y.score < x.score)
  IN before \o <<x>> \o after

\* .sort((a, b) => b.score - a.score)
RECURSIVE SortByScore(_, _)
SortByScore(sorted, rest) ==
  IF Len(rest) = 0 THEN sorted
  ELSE SortByScore(InsertByScore(sorted, rest[1]), Tail(rest))

\* LinkScraper.rankLinks
rankLinks(cands) == SortByScore(<< >>, MapScore(cands))

\* The position of url among the keys of uniqueLinks (0 when it is no key).
KeyIndex(uniqueLinks, url) ==
  IF \E i \in 1..Len(uniqueLinks) : uniqueLinks[i].url = url
  THEN CHOOSE i \in 1..Len(uniqueLinks) : uniqueLinks[i].url = url
  ELSE 0

\* A test that lets an anchor text of equal length replace the one kept.
Outranks_OrEqual(anchorText, kept) == Len(anchorText) >= Len(kept)

\* anchorText.length > uniqueLinks.get(url)!.anchorText.length
Outranks(anchorText, kept) == Len(anchorText) > Len(kept)

\* An each() body that skips an anchor whose href does not parse without
\* counting it.
EachAnchor_Uncounted(acc, el) ==
  IF ~Parses(el.href) THEN acc
  ELSE LET url == Resolve(el.href, BaseUrl)
           anchorText == trim(el.text)
           at == KeyIndex(acc.uniqueLinks, url)
           entry == [url |-> url, anchorText |-> anchorText]
       IN IF at = 0
          THEN [acc EXCEPT !.uniqueLinks = Append(@, entry)]
          ELSE IF Outranks(anchorText, acc.uniqueLinks[at].anchorText)
          THEN [acc EXCEPT !.uniqueLinks[at] = entry]
          ELSE acc

\* An each() body whose replacement deletes the key and sets it again, which
\* moves the entry behind every other entry of the Map.
EachAnchor_Reinsert(acc, el) ==
  IF ~Parses(el.href)
  THEN [acc EXCEPT !.invalidUrls = @ + 1]
  ELSE LET url == Resolve(el.href, BaseUrl)
           anchorText == trim(el.text)
           at == KeyIndex(acc.uniqueLinks, url)
           entry == [url |-> url, anchorText |-> anchorText]
       IN IF at = 0
          THEN [acc EXCEPT !.uniqueLinks = Append(@, entry)]
          ELSE IF Outranks(anchorText, acc.uniqueLinks[at].anchorText)
          THEN [acc EXCEPT !.uniqueLinks =
                  Append(SelectSeq(@, LAMBDA e : e.url # url), entry)]
          ELSE acc

\* The body of processHtml's each(): one anchor of the page.  uniqueLinks is
\* the Map as the sequence of its entries in insertion order.
EachAnchor(acc, el) ==
  IF ~Parses(el.href)
  THEN [acc EXCEPT !.invalidUrls = @ + 1]
  ELSE LET url == Resolve(el.href, BaseUrl)
           anchorText == trim(el.text)
           at == KeyIndex(acc.uniqueLinks, url)
           entry == [url |-> url, anchorText |-> anchorText]
       IN IF at = 0
          THEN [acc EXCEPT !.uniqueLinks = Append(@, entry)]
          ELSE IF Outranks(anchorText, acc.uniqueLinks[at].anchorText)
          THEN [acc EXCEPT !.uniqueLinks[at] = entry]
          ELSE acc

RECURSIVE EachFrom(_, _)
EachFrom(acc, anchors) ==
  IF Len(anchors) = 0 THEN acc
  ELSE EachFrom(EachAnchor(acc, anchors[1]), Tail(anchors))

\* $("a[href]"): the elements of the page that carry an href, in page order.
SelectAnchors(doc) == SelectSeq(doc, LAMBDA el : "href" \in DOMAIN el)

\* uniqueLinks once every a[href] of the page has been visited.
Extracted(doc) ==
  EachFrom([invalidUrls |-> 0, uniqueLinks |-> << >>], SelectAnchors(doc))

\* LinkScraper.processHtml
processHtml(doc) ==
  [invalidUrls |-> Extracted(doc).invalidUrls,
   links |-> rankLinks(Extracted(doc).uniqueLinks)]

\* The a[href] elements the sample pages are made of.
Anchors ==
  { [href |-> Href_contact, text |-> <<"G", "o">>],
    [href |-> Href_contactAbs, text |-> <<"G", "o", " ", "t", "o", " ", "C", "o", "n", "t", "a", "c", "t", " ", "P", "a", "g", "e">>],
    [href |-> Href_contact, text |-> <<" ", "U", "s", " ">>],
    [href |-> Href_contact, text |-> <<"D", "o", "c", "u", "m", "e", "n", "t", "s">>],
    [href |-> Href_report, text |-> <<"A", "C", "F", "R", " ", "2", "0", "2", "4">>],
    [href |-> Href_budget, text |-> <<"A", "n", "n", "u", "a", "l", " ", "B", "u", "d", "g", "e", "t">>],
    [href |-> Href_docpdf, text |-> <<"F", "i", "l", "e", "s">>],
    [href |-> Href_about, text |-> <<"A", "b", "o", "u", "t">>],
    [href |-> Href_aboutRel, text |-> <<"B", "u", "d", "g", "e", "t">>],
    [href |-> InvalidHref, text |-> <<"B", "a", "d">>] }

\* Most a[href] elements on a page.
MaxAnchors == 3

\* Inline scripts that send the browser elsewhere:
\*   <script>location.href = '/budget'</script>
\*   <script>window.location.assign('/contact-us')</script>
Scripts ==
  { [script |-> <<"l", "o", "c", "a", "t", "i", "o", "n", ".", "h", "r", "e", "f", " ", "=", " ", "'", "/", "b", "u", "d", "g", "e", "t", "'">>],
    [script |-> <<"w", "i", "n", "d", "o", "w", ".", "l", "o", "c", "a", "t", "i", "o", "n", ".", "a", "s", "s", "i", "g", "n", "(", "'", "/", "c", "o", "n", "t", "a", "c", "t", "-", "u", "s", "'", ")">>] }

\* Pages of anchors and inline scripts.
Elements ==
  {a \in Anchors : a.href \in {Href_about, Href_budget, InvalidHref}} \cup Scripts
ScriptPages == UNION {[1..n -> Elements] : n \in 0..MaxAnchors}

\* The pages: their a[href] elements in document order.
Pages == UNION {[1..n -> Anchors] : n \in 0..MaxAnchors}

\* ------------------------------------------------------------ scrape jobs
\* Number of scrape jobs (POST /scrape requests, or test cases) explored.
NumJobs == 2

Jobs == 1..NumJobs
Scrapers == 1..NumJobs

\* scale.scraping.maxConcurrent.  The source sets 10 (100 in production); it is
\* scaled down here so that NumJobs jobs can exceed it.
maxConcurrent == 1

\* A retry loop that allows one attempt more.
MAX_RETRIES_Raised == 3 + 1

\* fetchHtml's MAX_RETRIES.
MAX_RETRIES == 3

NoBrowser == 0

\* POST /scrape builds a LinkScraper per request; the test suites share one
\* LinkScraper among their cases and await each scrape before the next.
ScraperAssignments == {[j \in Jobs |-> j], [j \in Jobs |-> 1]}

\* The errors a browser attempt throws, by what their message contains.
\*   dns      net::ERR_NAME_NOT_RESOLVED at <url>
\*   net      net::ERR_CONNECTION_RESET and the other net::ERR_ failures
\*   blocked  net::ERR_BLOCKED_BY_CLIENT
\*   timeout  Navigation timeout of 45000 ms exceeded (puppeteer TimeoutError)
\*   other    Protocol error, Target closed, failed launch
ErrorKinds == {"dns", "net", "blocked", "timeout", "other"}

\* error.message.includes(marker)
MessageIncludes(kind, marker) ==
  CASE marker = "ERR_NAME_NOT_RESOLVED" -> kind = "dns"
    [] marker = "ERR_BLOCKED_BY_CLIENT" -> kind = "blocked"
    [] marker = "net::ERR" -> kind \in {"dns", "net", "blocked"}
    [] OTHER -> FALSE

\* A backoff that waits the same time before every retry.
Pow2_Flat(n) == 1

\* 2^attempt, the factor of the backoff delay.
RECURSIVE Pow2(_)
Pow2(n) == IF n = 0 THEN 1 ELSE 2 * Pow2(n - 1)

\* A handleFetchError without the DNS test.
handleFetchError_RetryDns(error, att, maxRetries) ==
  LET isRecoverable ==
        \/ MessageIncludes(error, "ERR_BLOCKED_BY_CLIENT")
        \/ MessageIncludes(error, "net::ERR")
      shouldRetry == isRecoverable /\ att < maxRetries - 1
  IN [shouldRetry |-> shouldRetry,
      delay |-> IF shouldRetry THEN Pow2(att) * 1000 ELSE 0]

\* A handleFetchError that asks for a retry after the last attempt as well.
handleFetchError_RetryLast(error, att, maxRetries) ==
  LET isDnsError == MessageIncludes(error, "ERR_NAME_NOT_RESOLVED")
      isRecoverable ==
        /\ ~isDnsError
        /\ \/ MessageIncludes(error, "ERR_BLOCKED_BY_CLIENT")
           \/ MessageIncludes(error, "net::ERR")
  IN [shouldRetry |-> isRecoverable,
      delay |-> IF isRecoverable THEN Pow2(att) * 1000 ELSE 0]

\* LinkScraper.handleFetchError.
handleFetchError(error, att, maxRetries) ==
  LET isDnsError == MessageIncludes(error, "ERR_NAME_NOT_RESOLVED")
      isRecoverable ==
        /\ ~isDnsError
        /\ \/ MessageIncludes(error, "ERR_BLOCKED_BY_CLIENT")
           \/ MessageIncludes(error, "net::ERR")
      shouldRetry == isRecoverable /\ att < maxRetries - 1
  IN IF isDnsError THEN [shouldRetry |-> FALSE, delay |-> 0]
     ELSE [shouldRetry |-> shouldRetry,
           delay |-> IF shouldRetry THEN Pow2(att) * 1000 ELSE 0]

\* What fetch(url) of fetchWithHttpClient comes back with: the status of the
\* response (0 when fetch rejects: network failure, or abort at httpTimeout),
\* the length of its body, whether the body contains "<html" and whether it
\* contains one of the jsRenderingIndicators.
HttpResults ==
  { [status |-> 0, length |-> 0, marker |-> FALSE, indicator |-> FALSE],
    [status |-> 404, length |-> 500, marker |-> TRUE, indicator |-> FALSE],
    [status |-> 200, length |-> 499, marker |-> TRUE, indicator |-> FALSE],
    [status |-> 200, length |-> 500, marker |-> FALSE, indicator |-> FALSE],
    [status |-> 200, length |-> 500, marker |-> TRUE, indicator |-> TRUE],
    [status |-> 200, length |-> 500, marker |-> TRUE, indicator |-> FALSE] }

\* No HTTP GET result is held.
NoHttp == [status |-> -1, length |-> 0, marker |-> FALSE, indicator |-> FALSE]

\* fetchWithHttpClient returns the body: fetch resolved and response.ok.
HttpReturns(r) == r.status >= 200 /\ r.status <= 299

\* A needsBrowserRendering without the length test.
needsBrowserRendering_AnyLength(content) ==
  ~content.marker \/ content.indicator

\* LinkScraper.needsBrowserRendering
needsBrowserRendering(content) ==
  content.length < 500 \/ ~content.marker \/ content.indicator

Terminal == {"done", "failed"}

\* scrape() has returned nothing.
NoResult == << >>

\* The request of a POST /scrape handler.  `at` is "none" when scrape() was
\* called by something else, "awaiting" while the handler awaits scrape(url),
\* "sent" once the response left; `url` is req.body.url.
NoRequest ==
  [at |-> "none", url |-> << >>, status |-> 0, message |-> "",
   error |-> FALSE, processed |-> 0, estimatedScore |-> 0, body |-> NoBody]

\* results.reduce((sum, link) => sum + link.score, 0)
RECURSIVE SumScores(_)
SumScores(results) ==
  IF results = << >> THEN 0
  ELSE results[1].score + SumScores(Tail(results))

\* An estimatedScore that leaves the last link out.
estimatedScore_SkipLast(results) ==
  IF results = << >> THEN 0 ELSE SumScores(SubSeq(results, 1, Len(results) - 1))

estimatedScore(results) == SumScores(results)

\* A 202 that sends the counts beside the message, not inside `data`.
ScrapeCompleted_Flat(request, results) ==
  [request EXCEPT !.at = "sent", !.status = 202,
                  !.message = "Scrape job completed", !.error = FALSE,
                  !.processed = Len(results),
                  !.estimatedScore = estimatedScore(results),
                  !.body = [processed |-> Len(results),
                            estimatedScore |-> estimatedScore(results),
                            message |-> "Scrape job completed",
                            error |-> FALSE]]

\* res.status(202).send({ data: { processed, estimatedScore }, ... })
ScrapeCompleted(request, results) ==
  [request EXCEPT !.at = "sent", !.status = 202,
                  !.message = "Scrape job completed", !.error = FALSE,
                  !.processed = Len(results),
                  !.estimatedScore = estimatedScore(results),
                  !.body = [data |-> [processed |-> Len(results),
                                      estimatedScore |-> estimatedScore(results)],
                            message |-> "Scrape job completed",
                            error |-> FALSE]]

\* next(error) and errorHandler: an HttpError keeps its status code, any
\* other error is a 500; the body has data null and error true.
ErrorResponse(request, message, statusCode) ==
  LET sent == errorHandler(Exception(message, statusCode)) IN
    [request EXCEPT !.at = "sent", !.status = sent.status,
                    !.message = sent.body.message, !.error = sent.body.error,
                    !.body = sent.body]

\* isValidUrl: new URL(url) does not throw.  With no base to resolve
\* against, a url without a scheme does not parse.
isValidUrl(url) == startsWith(url, Scheme) /\ Parses(url)

\* req.body?.url as clients send it: absent, relative, malformed, valid.
BodyUrls == {<< >>, Href_about, InvalidHref, Url_about}

\* scrape() of job j settles: the handler awaiting it sends its response,
\* 202 with the counts of the links returned, or the error through next().
Settle(j) ==
  /\ result' = [result EXCEPT ![j] = NoResult]
  /\ reply' = [reply EXCEPT ![j] =
                 IF @.at # "awaiting" THEN @
                 ELSE IF outcome[j] = "done"
                      THEN ScrapeCompleted(@, result[j][1])
                      ELSE ErrorResponse(@, "scrape failed", 500)]
NotRunning == {"idle"} \cup Terminal
\* Where fetchWithBrowserInstance holds a page it has opened.
PageOpen == {"page", "pageClose"}
\* Where fetchWithBrowserInstance is past the gate, inside its try block.
InTry == {"getBrowser", "launching", "newPage"} \cup PageOpen

JobInit ==
  /\ scraperOf \in ScraperAssignments
  /\ pc = [j \in Jobs |-> "idle"]
  /\ attempt = [j \in Jobs |-> 0]
  /\ calls = [j \in Jobs |-> 0]
  /\ waits = [j \in Jobs |-> << >>]
  /\ lastError = [j \in Jobs |-> "none"]
  /\ outcome = [j \in Jobs |-> "none"]
  /\ handle = [j \in Jobs |-> NoBrowser]
  /\ http = [j \in Jobs |-> NoHttp]
  /\ activeRequests = [s \in Scrapers |-> 0]
  /\ browser = [s \in Scrapers |-> NoBrowser]
  /\ openBrowsers = [s \in Scrapers |-> {}]
  /\ everLaunched = [s \in Scrapers |-> FALSE]
  /\ pages = {}
  /\ result = [j \in Jobs |-> NoResult]
  /\ reply = [j \in Jobs |-> NoRequest]

\* No page is being processed on its own.
PageIdle == html = << >> /\ outputs = << >> /\ response = NoResponse

\* The pages the jobs fetch: a page, and the same site after the anchor text
\* of one of its links has changed.
FetchedPages ==
  { << [href |-> Href_report, text |-> <<"A", "C", "F", "R", " ", "2", "0", "2", "4">>],
       [href |-> Href_aboutRel, text |-> <<"B", "u", "d", "g", "e", "t">>] >>,
    << [href |-> Href_about, text |-> <<"A", "b", "o", "u", "t">>] >> }

\* What scrape hands to bulkInsert for each of them: the links of processHtml.
ScrapedPages == {processHtml(page).links : page \in FetchedPages}

ScraperOf(j) == scraperOf[j]

\* The browser a puppeteer.launch() of job j resolves to: a new one for each
\* launch, and a call of fetchWithBrowserInstance launches at most once.
NewBrowser(j) == j * (MAX_RETRIES + 1) + attempt[j]

\* A getBrowser that takes this.browser as it is.
Connected_Always(s) == TRUE

\* this.browser?.connected
Connected(s) == browser[s] # NoBrowser /\ browser[s] \in openBrowsers[s]

\* Open pages are <<scraper, browser, k>>: the k-th page open on that browser.
PagesOn(s, b) == {p \in pages : p[1] = s /\ p[2] = b}
PagesOfScraper(s) == {p \in pages : p[1] = s}

\* browser.newPage() on browser b of scraper s: one more page is open.
OpenPage(open, s, b) ==
  open \cup {<<s, b, Cardinality({p \in open : p[1] = s /\ p[2] = b}) + 1>>}

\* Closing or losing browser b of scraper s closes the pages opened on it.
PagesWithout(s, b) == {p \in pages : ~(p[1] = s /\ p[2] = b)}

\* A close() that closes nothing.
closeTarget_None(b) == {}

\* The browsers close() closes: this.browser, when it is set.
closeTarget(b) == IF b # NoBrowser THEN {b} ELSE {}

\* page.close() on a page of browser b of scraper s: one page fewer is open.
ClosePage(open, s, b) ==
  open \ {<<s, b, Cardinality({p \in open : p[1] = s /\ p[2] = b})>>}

\* scrape(url) is called: by the POST /scrape handler on a scraper of its own,
\* by a test case once the previous case's scrape has settled.
StartScrape(j) ==
  /\ pc[j] = "idle"
  /\ \A k \in Jobs \ {j} :
       ScraperOf(k) = ScraperOf(j) => pc[k] \in NotRunning
  /\ pc' = [pc EXCEPT ![j] = "http"]
  /\ UNCHANGED <<storeVars, fixed, outcome, locals, fields, world>>

\* scrape(url) is called on a LinkScraper whether or not an earlier scrape of
\* it has settled: a caller that scrapes several urls with one instance.
StartConcurrent(j) ==
  /\ pc[j] = "idle"
  /\ pc' = [pc EXCEPT ![j] = "http"]
  /\ UNCHANGED <<storeVars, fixed, outcome, locals, fields, world>>

\* POST /scrape: the handler builds a LinkScraper, reads req.body?.url and
\* throws HttpError 400 unless it is set and isValidUrl; otherwise it awaits
\* scraper.scrape(url).  One request is followed at a time.
PostScrape(j) ==
  /\ pc[j] = "idle"
  /\ \A k \in Jobs : reply[k].at # "awaiting"
  /\ reply[j].at = "none"
  /\ \E url \in BodyUrls :
       LET request == [NoRequest EXCEPT !.url = url] IN
         IF url = << >> \/ ~isValidUrl(url)
         THEN /\ reply' = [reply EXCEPT ![j] =
                             ErrorResponse(request, "Valid url required", 400)]
              /\ UNCHANGED pc
         ELSE /\ reply' = [reply EXCEPT ![j] =
                             [request EXCEPT !.at = "awaiting"]]
              /\ pc' = [pc EXCEPT ![j] = "http"]
  /\ UNCHANGED <<storeVars, scraperOf, pageVars, result, outcome, locals,
                 fields, world>>

\* fetchHtml: the HTTP client returned content that needs no rendering.
HttpOk(j) ==
  /\ pc[j] = "http"
  /\ \E r \in HttpResults :
       /\ HttpReturns(r) /\ ~needsBrowserRendering(r)
       /\ http' = [http EXCEPT ![j] = r]
  /\ pc' = [pc EXCEPT ![j] = "process"]
  /\ UNCHANGED <<storeVars, fixed, outcome, attempt, calls, waits, lastError,
                 handle, fields, world>>

\* fetchHtml: the HTTP client failed, or its content needs rendering; the retry
\* loop starts with attempt = 0 and calls fetchWithBrowserInstance.
HttpFallback(j) ==
  /\ pc[j] = "http"
  /\ \E r \in HttpResults :
       /\ ~HttpReturns(r) \/ needsBrowserRendering(r)
       /\ http' = [http EXCEPT ![j] = r]
  /\ IF 0 < MAX_RETRIES
     THEN /\ pc' = [pc EXCEPT ![j] = "gate"]
          /\ calls' = [calls EXCEPT ![j] = @ + 1]
          /\ UNCHANGED outcome
     ELSE /\ pc' = [pc EXCEPT ![j] = "cleanup"]
          /\ outcome' = [outcome EXCEPT ![j] = "failed"]
          /\ UNCHANGED calls
  /\ attempt' = [attempt EXCEPT ![j] = 0]
  /\ UNCHANGED <<storeVars, fixed, waits, lastError, handle, fields, world>>

\* fetchWithBrowserInstance: the wait loop ends once activeRequests is below
\* maxConcurrent; the call then takes a slot.  The HTTP result is out of scope.
PassGate(j) ==
  /\ pc[j] = "gate"
  /\ activeRequests[ScraperOf(j)] < maxConcurrent
  /\ activeRequests' = [activeRequests EXCEPT ![ScraperOf(j)] = @ + 1]
  /\ http' = [http EXCEPT ![j] = NoHttp]
  /\ pc' = [pc EXCEPT ![j] = "getBrowser"]
  /\ UNCHANGED <<storeVars, fixed, outcome, attempt, calls, waits, lastError,
                 handle, browser, world>>

\* getBrowser: a connected this.browser is reused, otherwise one is launched.
GetBrowser(j) ==
  /\ pc[j] = "getBrowser"
  /\ IF Connected(ScraperOf(j))
     THEN /\ handle' = [handle EXCEPT ![j] = browser[ScraperOf(j)]]
          /\ pc' = [pc EXCEPT ![j] = "newPage"]
     ELSE /\ pc' = [pc EXCEPT ![j] = "launching"]
          /\ UNCHANGED handle
  /\ UNCHANGED <<storeVars, fixed, outcome, attempt, calls, waits,
                 lastError, http, fields, world>>

\* getBrowser: puppeteer.launch resolved; this.browser is the new browser.
LaunchOk(j) ==
  LET s == ScraperOf(j)
      b == NewBrowser(j)
  IN /\ pc[j] = "launching"
     /\ openBrowsers' = [openBrowsers EXCEPT ![s] = @ \cup {b}]
     /\ browser' = [browser EXCEPT ![s] = b]
     /\ everLaunched' = [everLaunched EXCEPT ![s] = TRUE]
     /\ handle' = [handle EXCEPT ![j] = b]
     /\ pc' = [pc EXCEPT ![j] = "newPage"]
     /\ UNCHANGED <<storeVars, fixed, outcome, attempt, calls, waits,
                    lastError, http, activeRequests, pages>>

\* browser.newPage() resolved.
NewPageOk(j) ==
  /\ pc[j] = "newPage"
  /\ handle[j] \in openBrowsers[ScraperOf(j)]
  /\ pages' = OpenPage(pages, ScraperOf(j), handle[j])
  /\ pc' = [pc EXCEPT ![j] = "page"]
  /\ UNCHANGED <<storeVars, fixed, outcome, locals, fields, openBrowsers,
                 everLaunched>>

\* The page was set up, page.goto resolved and page.content() was read.
PageOk(j) ==
  /\ pc[j] = "page"
  /\ handle[j] \in openBrowsers[ScraperOf(j)]
  /\ pc' = [pc EXCEPT ![j] = "pageClose"]
  /\ UNCHANGED <<storeVars, fixed, outcome, locals, fields, world>>

\* fetchHtml has returned or thrown: its frame and that of
\* fetchWithBrowserInstance, with their locals, are gone.
DropLocals(j) ==
  /\ attempt' = [attempt EXCEPT ![j] = 0]
  /\ calls' = [calls EXCEPT ![j] = 0]
  /\ waits' = [waits EXCEPT ![j] = << >>]
  /\ lastError' = [lastError EXCEPT ![j] = "none"]
  /\ handle' = [handle EXCEPT ![j] = NoBrowser]
  /\ http' = [http EXCEPT ![j] = NoHttp]

\* A finally block that gives no slot back.
Release_Kept(n) == n

\* this.activeRequests--
Release(n) == n - 1

\* page.close() resolved; the success path decrements activeRequests and
\* returns, and the finally block decrements it again.  fetchHtml returns.
PageCloseOk(j) ==
  /\ pc[j] = "pageClose"
  /\ handle[j] \in openBrowsers[ScraperOf(j)]
  /\ pages' = ClosePage(pages, ScraperOf(j), handle[j])
  /\ activeRequests' = [activeRequests EXCEPT ![ScraperOf(j)] =
                          Release(Release(@))]
  /\ DropLocals(j)
  /\ pc' = [pc EXCEPT ![j] = "process"]
  /\ UNCHANGED <<storeVars, fixed, outcome, browser, openBrowsers,
                 everLaunched>>

\* An awaited call inside the try block rejected with an error of `kind`:
\* the finally block decrements activeRequests, fetchHtml's catch asks
\* handleFetchError, and either sleeps the delay or rethrows.  Navigation
\* (page.goto) fails with any kind; a launch, a call on a browser that is
\* gone, newPage and page.close() fail with a protocol error.
AttemptFails(j, kind) ==
  LET r == handleFetchError(kind, attempt[j], MAX_RETRIES) IN
    /\ pc[j] \in {"launching", "newPage"} \cup PageOpen
    /\ (pc[j] # "page" \/ handle[j] \notin openBrowsers[ScraperOf(j)])
         => kind = "other"
    /\ activeRequests' = [activeRequests EXCEPT ![ScraperOf(j)] = Release(@)]
    /\ lastError' = [lastError EXCEPT ![j] = kind]
    /\ handle' = [handle EXCEPT ![j] = NoBrowser]
    /\ IF r.shouldRetry
       THEN /\ pc' = [pc EXCEPT ![j] = "backoff"]
            /\ waits' = [waits EXCEPT ![j] = Append(@, r.delay)]
            /\ UNCHANGED outcome
       ELSE /\ pc' = [pc EXCEPT ![j] = "cleanup"]
            /\ outcome' = [outcome EXCEPT ![j] = "failed"]
            /\ UNCHANGED waits
    /\ UNCHANGED <<storeVars, fixed, attempt, calls, http, browser, world>>

\* The backoff sleep ended: attempt++ ends the catch block, whose error goes
\* out of scope, and the loop condition is tested again.
Backoff(j) ==
  /\ pc[j] = "backoff"
  /\ attempt' = [attempt EXCEPT ![j] = @ + 1]
  /\ IF attempt[j] + 1 < MAX_RETRIES
     THEN /\ pc' = [pc EXCEPT ![j] = "gate"]
          /\ calls' = [calls EXCEPT ![j] = @ + 1]
          /\ lastError' = [lastError EXCEPT ![j] = "none"]
          /\ UNCHANGED outcome
     ELSE /\ pc' = [pc EXCEPT ![j] = "cleanup"]
          /\ outcome' = [outcome EXCEPT ![j] = "failed"]
          /\ lastError' = [lastError EXCEPT ![j] = "maxRetries"]
          /\ UNCHANGED calls
  /\ UNCHANGED <<storeVars, fixed, waits, handle, http, fields, world>>

\* A scrape that stores links while its page is still being read.
Persist_WhileFetching(j) ==
  /\ pc[j] = "page"
  /\ \E page \in ScrapedPages :
       /\ bulkInsert(page)
       /\ result' = [result EXCEPT ![j] = <<page>>]
  /\ UNCHANGED <<scraperOf, pageVars, reply, pc, outcome, locals, fields, world>>

\* processHtml and rankLinks run, and bulkInsert stores the ranked links.
Persist(j) ==
  /\ pc[j] = "process"
  /\ \E page \in ScrapedPages :
       /\ bulkInsert(page)
       /\ result' = [result EXCEPT ![j] = <<page>>]
  /\ pc' = [pc EXCEPT ![j] = "cleanup"]
  /\ outcome' = [outcome EXCEPT ![j] = "done"]
  /\ http' = [http EXCEPT ![j] = NoHttp]
  /\ UNCHANGED <<scraperOf, pageVars, reply, attempt, calls, waits, lastError,
                 handle, fields, world>>

\* bulkInsert throws (the database is busy or closed): nothing is stored.
PersistFails(j) ==
  /\ pc[j] = "process"
  /\ pc' = [pc EXCEPT ![j] = "cleanup"]
  /\ outcome' = [outcome EXCEPT ![j] = "failed"]
  /\ http' = [http EXCEPT ![j] = NoHttp]
  /\ UNCHANGED <<storeVars, fixed, attempt, calls, waits, lastError, handle,
                 fields, world>>

\* scrape's finally block calls close(): browser.close() is started on
\* this.browser when it is set; the browser disconnects, its pages go with
\* it, and its 'disconnected' listener sets this.browser to null.  With no
\* browser set, close() returns and scrape settles.
CloseBegin(j) ==
  LET s == ScraperOf(j)
      closing == closeTarget(browser[s])
  IN /\ pc[j] = "cleanup"
     /\ DropLocals(j)
     /\ IF browser[s] # NoBrowser
        THEN /\ pc' = [pc EXCEPT ![j] = "closing"]
             /\ openBrowsers' = [openBrowsers EXCEPT ![s] = @ \ closing]
             /\ pages' = {p \in pages : ~(p[1] = s /\ p[2] \in closing)}
             /\ browser' = [browser EXCEPT ![s] =
                              IF closing = {} THEN @ ELSE NoBrowser]
             /\ UNCHANGED handed
        ELSE /\ pc' = [pc EXCEPT ![j] = outcome[j]]
             /\ Settle(j)
             /\ UNCHANGED <<openBrowsers, pages, browser>>
     /\ UNCHANGED <<storeVars, scraperOf, pageVars, outcome, activeRequests,
                    everLaunched>>

\* close(): browser.close() resolved; this.browser = null; scrape settles.
CloseEnd(j) ==
  /\ pc[j] = "closing"
  /\ browser' = [browser EXCEPT ![ScraperOf(j)] = NoBrowser]
  /\ pc' = [pc EXCEPT ![j] = outcome[j]]
  /\ Settle(j)
  /\ UNCHANGED <<storeVars, scraperOf, pageVars, outcome, locals,
                 activeRequests, world>>

\* Where the loss of a browser is placed: at getBrowser's connected test, and
\* while a job awaits a call on its page.  A loss while newPage() or
\* page.close() is awaited leads to the states a loss at the page leads to.
NoticesDisconnect == {"getBrowser", "page"}

\* A browser crashes or loses its connection: its pages are gone and its
\* 'disconnected' listener sets this.browser to null.  The loss is placed no
\* earlier than a point where a job of the scraper can notice it.
Disconnected(s) ==
  /\ \E j \in Jobs : ScraperOf(j) = s /\ pc[j] \in NoticesDisconnect
  /\ \E b \in openBrowsers[s] :
       /\ openBrowsers' = [openBrowsers EXCEPT ![s] = @ \ {b}]
       /\ pages' = PagesWithout(s, b)
       /\ browser' = [browser EXCEPT ![s] = NoBrowser]
  /\ UNCHANGED <<storeVars, fixed, pc, outcome, locals, activeRequests,
                 everLaunched>>

\* ------------------------------------------------------------- GET /links
\* scale.search.pageSize is 100; the model's pages are shorter.
pageSize == 2

\* The rows of a shard table in the order a scan visits them: the order of
\* insertion, which is the order of the ids.
RECURSIVE Scan(_)
Scan(rows) ==
  IF rows = {} THEN << >>
  ELSE LET first == CHOOSE r \in rows : \A o \in rows : r.id <= o.id
       IN <<first>> \o Scan(rows \ {first})

\* A WHERE clause that leaves out the rows whose score equals minScore.
ScoreAtLeast_Strict(score, minScore) == score > minScore

\* WHERE score >= @minScore
ScoreAtLeast(score, minScore) == score >= minScore

\* combined_links: the three SELECTs, UNION ALL.
combined_links(minScore) ==
  SelectSeq(Scan(links_high) \o Scan(links_medium) \o Scan(links_low),
            LAMBDA r : ScoreAtLeast(r.score, minScore))

\* The text of the keywords column, character by character.
RECURSIVE json_extract(_)
json_extract(tokens) ==
  IF Len(tokens) = 0 THEN << >>
  ELSE (IF tokens[1] \in {"[", "]", ",", "\""} THEN <<tokens[1]>>
        ELSE Chars(tokens[1])) \o json_extract(Tail(tokens))

\* An absent (or empty) keyword parameter adds no condition; otherwise
\* json_extract(keywords, '$') LIKE '%' || @keyword || '%', and LIKE does not
\* tell upper case from lower case.
keywordCondition(row, keyword) ==
  \/ keyword = << >>
  \/ includes(toLowerCase(json_extract(row.keywords)), toLowerCase(keyword))

\* JSON.parse of the keywords column.
JSONparse(tokens) ==
  SelectSeq(tokens, LAMBDA x : x \notin {"[", "]", ",", "\""})

formattedLinks(rows) ==
  [i \in 1..Len(rows) |-> [rows[i] EXCEPT !.keywords = JSONparse(@)]]

\* ORDER BY score DESC: rows of equal score stay in the order of the scan.
OrderByScoreDesc(rows) == SortByScore(<< >>, rows)

\* A LIMIT that ignores the offset.
LimitOffset_NoOffset(rows, limit, offset) ==
  SubSeq(rows, 1, IF limit <= Len(rows) THEN limit ELSE Len(rows))

\* LIMIT @limit OFFSET @offset
LimitOffset(rows, limit, offset) ==
  SubSeq(rows, offset + 1,
         IF offset + limit <= Len(rows) THEN offset + limit ELSE Len(rows))

\* Math.ceil(totalCount / pageSize)
totalPages(totalCount) == (totalCount + pageSize - 1) \div pageSize

\* errorHandler: the body of an error response.
HttpError(route, message, statusCode) ==
  LET sent == errorHandler(Exception(message, statusCode)) IN
    [NoResponse EXCEPT !.route = route, !.status = sent.status,
                       !.message = sent.body.message,
                       !.error = sent.body.error, !.body = sent.body]

\* The handler of GET /links from the parsed parameters on, called without a
\* parentUrl.
getLinks(minScore, keyword, page) ==
  IF page < 1
  THEN [HttpError("links", "Invalid page parameter", 400)
          EXCEPT !.minScore = minScore, !.keyword = keyword, !.page = page]
  ELSE LET matching == SelectSeq(combined_links(minScore),
                                 LAMBDA r : keywordCondition(r, keyword))
           rows == LimitOffset(OrderByScoreDesc(matching), pageSize,
                               (page - 1) * pageSize)
       IN [NoResponse EXCEPT
             !.route = "links", !.status = 200,
             !.message = "Successfully retrieved links", !.queries = 2,
             !.minScore = minScore, !.keyword = keyword, !.page = page,
             !.results = formattedLinks(rows),
             !.totalResultsCount = Len(matching),
             !.totalPages = totalPages(Len(matching)),
             !.body = [data |-> [totalResultsCount |-> Len(matching),
                                 results |-> formattedLinks(rows),
                                 page |-> page,
                                 totalPages |-> totalPages(Len(matching))],
                       message |-> "Successfully retrieved links",
                       error |-> FALSE]]

\* The value of each decimal digit.
DigitOf ==
  [c \in {"0", "1", "2", "3", "4", "5", "6", "7", "8", "9"} |->
     CASE c = "0" -> 0 [] c = "1" -> 1 [] c = "2" -> 2 [] c = "3" -> 3
       [] c = "4" -> 4 [] c = "5" -> 5 [] c = "6" -> 6 [] c = "7" -> 7
       [] c = "8" -> 8 [] OTHER -> 9]

\* The longest prefix of s that consists of digits.
RECURSIVE DigitsPrefix(_)
DigitsPrefix(s) ==
  IF Len(s) = 0 \/ s[1] \notin DOMAIN DigitOf THEN << >>
  ELSE <<s[1]>> \o DigitsPrefix(Tail(s))

RECURSIVE DigitsValue(_, _)
DigitsValue(ds, acc) ==
  IF Len(ds) = 0 THEN acc
  ELSE DigitsValue(Tail(ds), 10 * acc + DigitOf[ds[1]])

\* A number is <<n>>; NaN is the empty sequence.
NaN == << >>
isNaN(x) == x = NaN

\* parseInt(string): leading white space is skipped, a sign is read, and the
\* digits that follow are the value; what comes after them is ignored.
\* Without a digit the value is NaN.
parseInt(s) ==
  LET t == trimStart(s)
      signed == Len(t) > 0 /\ t[1] \in {"-", "+"}
      ds == DigitsPrefix(IF signed THEN Tail(t) ELSE t)
      n == DigitsValue(ds, 0)
  IN IF ds = << >> THEN NaN
     ELSE IF signed /\ t[1] = "-" THEN <<0 - n>> ELSE <<n>>

\* parseFloat(string) in hundredths: sign, digits, and a point with digits,
\* of which two are kept; what comes after them is ignored.  (Exponents and
\* Infinity are not among the parameters the model sends.)
parseFloat(s) ==
  LET t == trimStart(s)
      signed == Len(t) > 0 /\ t[1] \in {"-", "+"}
      u == IF signed THEN Tail(t) ELSE t
      ds == DigitsPrefix(u)
      rest == SubSeq(u, Len(ds) + 1, Len(u))
      fs == IF Len(rest) > 0 /\ rest[1] = "." THEN DigitsPrefix(Tail(rest))
            ELSE << >>
      two == SubSeq(fs \o <<"0", "0">>, 1, 2)
      n == 100 * DigitsValue(ds, 0) + DigitsValue(two, 0)
  IN IF ds = << >> /\ fs = << >> THEN NaN
     ELSE IF signed /\ t[1] = "-" THEN <<0 - n>> ELSE <<n>>

\* The handler of GET /links: the parameters are parsed and tested, then the
\* store is queried.
handleGetLinks(minScore, keyword, page) ==
  LET pageNumber == parseInt(page)
      minScoreNumber == parseFloat(minScore)
      answer ==
        IF isNaN(pageNumber)
        THEN HttpError("links", "Invalid page parameter", 400)
        ELSE IF pageNumber[1] >= 1 /\ isNaN(minScoreNumber)
        THEN HttpError("links", "Invalid minScore parameter", 400)
        ELSE getLinks(IF isNaN(minScoreNumber) THEN 0 ELSE minScoreNumber[1],
                      keyword, pageNumber[1])
  IN [answer EXCEPT !.asked = <<minScore, page>>, !.keyword = keyword]

\* The requests of the clients.  minScore: absent ("0"), 0.3, 0.7, or not a
\* number.  keyword: absent or c.  page: absent ("1"), 0, 2, not a number, or
\* a number that is no integer.
MinScores ==
  {<<"0">>, <<"0", ".", "3">>, <<"0", ".", "7">>, <<"a", "b", "c">>}
KeywordParams == {<< >>, <<"c">>}
PageParams == {<<"1">>, <<"0">>, <<"2">>, <<"x">>, <<"1", ".", "5">>}

\* A WHERE clause that every row passes.
WhereId_Any(rows, id) == rows

\* WHERE id = ?
WhereId(rows, id) == {r \in rows : r.id = id}

\* The handler of GET /links/:id: the first row of the view `links` with that
\* id, or 404.
getLinkById(id) ==
  LET found == WhereId(links, id) IN
    IF found = {}
    THEN [HttpError("link", "Link not found", 404)
            EXCEPT !.id = id, !.queries = 1]
    ELSE [NoResponse EXCEPT
            !.route = "link", !.status = 200,
            !.message = "Successfully retrieved link",
            !.id = id, !.queries = 1,
            !.results = formattedLinks(<<CHOOSE r \in found : TRUE>>),
            !.body = [data |-> formattedLinks(<<CHOOSE r \in found : TRUE>>)[1],
                      message |-> "Successfully retrieved link",
                      error |-> FALSE]]

\* The ids the clients ask for: 0 stands for a text that is no ULID, the
\* others for the ULIDs of the rows stored and of one that is not.
IdParams == 0..(MaxIds + 1)

\* What the clients of the API have stored: a url at a score of each shard,
\* just below 0.7 in the medium shard, and a second url in the high shard.
QueryLinks ==
  {l \in Links : (l.url = Url_about /\ l.score # MediumMin) \/ l.score = HighMin}

\* ---------------------------------------------------------- specifications
Init == StoreInit /\ JobInit /\ PageIdle

Next ==
  \/ \E j \in Jobs :
       \/ StartScrape(j)
       \/ HttpOk(j)
       \/ HttpFallback(j)
       \/ PassGate(j)
       \/ GetBrowser(j)
       \/ LaunchOk(j)
       \/ NewPageOk(j)
       \/ PageOk(j)
       \/ PageCloseOk(j)
       \/ \E kind \in ErrorKinds : AttemptFails(j, kind)
       \/ Backoff(j)
       \/ Persist(j)
       \/ PersistFails(j)
       \/ CloseBegin(j)
       \/ CloseEnd(j)
  \/ \E s \in Scrapers : Disconnected(s)

\* The scraper: jobs started by the server and by the test suites.
Spec == Init /\ [][Next]_vars

\* A direct caller of the repository.
InsertLink ==
  /\ nextId <= MaxIds
  /\ \E link \in Links : insertLink(link)
  /\ UNCHANGED <<jobVars, pageVars>>

BulkInsert ==
  /\ \E batch \in Batches :
       /\ nextId + Len(batch) - 1 <= MaxIds
       /\ bulkInsert(batch)
  /\ UNCHANGED <<jobVars, pageVars>>

InitRepo ==
  StoreInit /\ JobInit /\ PageIdle /\ scraperOf = [j \in Jobs |-> j]

NextRepo == InsertLink \/ BulkInsert

\* The repository alone, under any sequence of insertLink / bulkInsert calls.
SpecRepo == InitRepo /\ [][NextRepo]_vars

NextApi ==
  \/ \E j \in Jobs :
       \/ PostScrape(j)
       \/ HttpOk(j)
       \/ HttpFallback(j)
       \/ PassGate(j)
       \/ GetBrowser(j)
       \/ LaunchOk(j)
       \/ NewPageOk(j)
       \/ PageOk(j)
       \/ PageCloseOk(j)
       \/ \E kind \in ErrorKinds : AttemptFails(j, kind)
       \/ Backoff(j)
       \/ Persist(j)
       \/ PersistFails(j)
       \/ CloseBegin(j)
       \/ CloseEnd(j)
  \/ \E s \in Scrapers : Disconnected(s)

\* Every job runs on one LinkScraper.
InitShared ==
  StoreInit /\ JobInit /\ PageIdle /\ scraperOf = [j \in Jobs |-> 1]

NextShared ==
  \/ \E j \in Jobs :
       \/ StartConcurrent(j)
       \/ HttpOk(j)
       \/ HttpFallback(j)
       \/ PassGate(j)
       \/ GetBrowser(j)
       \/ LaunchOk(j)
       \/ NewPageOk(j)
       \/ PageOk(j)
       \/ PageCloseOk(j)
       \/ \E kind \in ErrorKinds : AttemptFails(j, kind)
       \/ Backoff(j)
       \/ Persist(j)
       \/ PersistFails(j)
       \/ CloseBegin(j)
       \/ CloseEnd(j)
  \/ \E s \in Scrapers : Disconnected(s)

\* One LinkScraper whose scrapes overlap.
SpecShared == InitShared /\ [][NextShared]_vars

\* The callers of fetchWithBrowserInstance on one LinkScraper, each in the
\* last round of the retry loop of its fetchHtml, after navigations that
\* failed on a network error and their backoff sleeps.  The browser job 1
\* launched first served them all, and the page of each failed navigation
\* is still open on it.
FirstBrowser == 1 * (MAX_RETRIES + 1) + 0

InitWaiting ==
  /\ StoreInit /\ PageIdle
  /\ scraperOf = [j \in Jobs |-> 1]
  /\ pc = [j \in Jobs |-> "gate"]
  /\ attempt = [j \in Jobs |-> MAX_RETRIES - 1]
  /\ calls = [j \in Jobs |-> MAX_RETRIES]
  /\ waits = [j \in Jobs |-> [k \in 1..(MAX_RETRIES - 1) |-> Pow2(k - 1) * 1000]]
  /\ lastError = [j \in Jobs |-> "none"]
  /\ outcome = [j \in Jobs |-> "none"]
  /\ handle = [j \in Jobs |-> NoBrowser]
  /\ http = [j \in Jobs |-> NoHttp]
  /\ activeRequests = [s \in Scrapers |-> 0]
  /\ browser = [s \in Scrapers |-> IF s = 1 THEN FirstBrowser ELSE NoBrowser]
  /\ openBrowsers = [s \in Scrapers |-> IF s = 1 THEN {FirstBrowser} ELSE {}]
  /\ everLaunched = [s \in Scrapers |-> s = 1]
  /\ pages = {<<1, FirstBrowser, k>> : k \in 1..(NumJobs * (MAX_RETRIES - 1))}
  /\ result = [j \in Jobs |-> NoResult]
  /\ reply = [j \in Jobs |-> NoRequest]

\* What an awaited call or the timer of the wait loop does next for the
\* fetchWithBrowserInstance call of job j, up to its return or its throw.
Progress(j) ==
  \/ PassGate(j)
  \/ GetBrowser(j)
  \/ LaunchOk(j)
  \/ NewPageOk(j)
  \/ PageOk(j)
  \/ PageCloseOk(j)
  \/ \E kind \in ErrorKinds : AttemptFails(j, kind)

NextWaiting ==
  \/ \E j \in Jobs : Progress(j)
  \/ \E s \in Scrapers : Disconnected(s)

\* Every awaited call settles (each has a timeout) and the 100 ms timer of
\* the wait loop fires: a job that can take a step takes one.
FairWaiting ==
  /\ InitWaiting /\ [][NextWaiting]_vars
  /\ \A j \in Jobs : WF_vars(Progress(j))

\* The test suite: one LinkScraper whose scrapes follow one another.
SpecSuite == InitShared /\ [][Next]_vars

\* The server: POST /scrape requests, each on a LinkScraper of its own.
SpecApi == InitRepo /\ [][NextApi]_vars

\* A caller of bulkInsert whose batches may hold a link that cannot be bound.
WriteBatch ==
  /\ \E batch \in OfferedBatches :
       /\ nextId + Len(batch) - 1 <= MaxIds
       /\ bulkInsert(batch)
  /\ UNCHANGED <<jobVars, pageVars>>

NextWrite == WriteBatch

\* bulkInsert under any sequence of batches, well-formed or not.
SpecWrite == InitRepo /\ [][NextWrite]_vars

\* A link is stored between two requests.
StoreLink ==
  /\ nextId <= MaxIds
  /\ \E link \in QueryLinks : insertLink(link)
  /\ response' = NoResponse
  /\ UNCHANGED <<jobVars, html, outputs>>

\* GET /links is served.  One request is followed per state of the store: any
\* further request is answered from the same store in the same way.
GetLinks ==
  /\ response = NoResponse
  /\ \E minScore \in MinScores, keyword \in KeywordParams, page \in PageParams :
       response' = handleGetLinks(minScore, keyword, page)
  /\ UNCHANGED <<storeVars, jobVars, html, outputs>>

\* GET /links/:id is served.
GetLinkById ==
  /\ response = NoResponse
  /\ \E id \in IdParams : response' = getLinkById(id)
  /\ UNCHANGED <<storeVars, jobVars, html, outputs>>

NextQuery == StoreLink \/ GetLinks \/ GetLinkById

\* The API over a store that grows between the requests.
SpecQuery == InitRepo /\ [][NextQuery]_vars

\* A GET request is served while no scrape is under way: its handler runs in
\* one turn of the event loop and reads nothing but the store.
ServeGet ==
  /\ \A j \in Jobs : pc[j] \in NotRunning
  /\ GetLinks \/ GetLinkById

\* The client has read the answer to its GET request.
Answered ==
  /\ response # NoResponse
  /\ response' = NoResponse
  /\ UNCHANGED <<storeVars, jobVars, html, outputs>>

NextServer ==
  \/ response = NoResponse /\ NextApi
  \/ ServeGet
  \/ Answered

\* The server: its three routes, the scrapes started by POST /scrape and the
\* store they fill.
SpecServer == InitRepo /\ [][NextServer]_vars

\* processHtml is called on a fetched page.
ProcessHtml ==
  /\ outputs = << >>
  /\ outputs' = <<processHtml(html)>>
  /\ UNCHANGED <<html, response, storeVars, jobVars>>

InitExtract ==
  /\ StoreInit /\ JobInit /\ scraperOf = [j \in Jobs |-> j]
  /\ html \in Pages
  /\ outputs = << >>
  /\ response = NoResponse

NextExtract == ProcessHtml

InitScripts ==
  /\ StoreInit /\ JobInit /\ scraperOf = [j \in Jobs |-> j]
  /\ html \in ScriptPages
  /\ outputs = << >>
  /\ response = NoResponse

\* Extraction from pages that hold inline scripts.
SpecScripts == InitScripts /\ [][NextExtract]_vars

\* Extraction and ranking of the links of any page.
SpecExtract == InitExtract /\ [][NextExtract]_vars

\* ------------------------------------------------------------------ claims
ShardsHolding(u) == {s \in ShardNames : \E r \in tables[s] : r.url = u}
Retryable == {"net", "blocked"}
JobsOn(s) == {j \in Jobs : ScraperOf(j) = s}
Failing(j) == pc[j] = "cleanup" /\ outcome[j] = "failed"

\* C1: after any sequence of insertLink / bulkInsert calls no url is present
\* in more than one of links_high, links_medium, links_low.
C1_OneShardPerUrl == \A u \in Urls : Cardinality(ShardsHolding(u)) <= 1

\* C2: every row of a shard table has its score in that shard's range, and
\* the shard determineShard picks for a supplied score is the one shard whose
\* range check accepts it, so the url of every executed statement has a row
\* in exactly that shard.
C2_ShardRanges ==
  /\ \A s \in ShardNames : \A r \in tables[s] : RangeCheck(s, r.score)
  /\ \A i \in 1..Len(runs) :
       LET l == runs[i].link IN
         /\ {s \in ShardNames : RangeCheck(s, l.score)}
              = {determineShard(l.score)}
         /\ \A s \in ShardNames : RangeCheck(s, l.score) => s \in ShardsHolding(l.url)

C2_Witness == links_high # {} /\ links_medium # {} /\ links_low # {}

\* C3: once a url is stored again, its stored record carries the score,
\* keywords and type of the link supplied last.
C3_UpsertRefreshes ==
  \A u \in Urls :
    RunsOf(u) # {} =>
      /\ RowsOf(u) # {}
      /\ \A p \in RowsOf(u) :
           /\ p[2].score = LastSupplied(u).score
           /\ p[2].keywords = JSONstringify(LastSupplied(u).keywords)
           /\ p[2].type = LastSupplied(u).type

\* C4: a url that has been stored with one and the same score, however many
\* times, has exactly one stored record, whose id is the id of the first store.
C4_Idempotent ==
  \A u \in Urls :
    Cardinality(ScoresSupplied(u)) = 1 =>
      /\ Cardinality(RowsOf(u)) = 1
      /\ \A p \in RowsOf(u) : p[2].id = FirstId(u)

C4_Witness ==
  \E u \in Urls :
    /\ Cardinality(RunsOf(u)) >= 2
    /\ Cardinality(ScoresSupplied(u)) = 1
    /\ Cardinality(RowsOf(u)) = 1

\* C5: over all running scrape jobs, the number of pages open inside
\* fetchWithBrowserInstance is at most maxConcurrent.
C5_PagesWithinLimit ==
  Cardinality({j \in Jobs : /\ pc[j] \in PageOpen
                            /\ handle[j] \in openBrowsers[ScraperOf(j)]})
    <= maxConcurrent

\* C6: one fetchHtml calls fetchWithBrowserInstance at most 3 times, and a
\* fetchHtml whose attempts all failed with a retryable error fails at its
\* third call.
C6_AtMostThreeAttempts ==
  \A j \in Jobs :
    /\ calls[j] <= 3
    /\ (Failing(j) /\ lastError[j] \in Retryable) => calls[j] = 3

C6_Witness ==
  \E j \in Jobs : Failing(j) /\ lastError[j] \in Retryable /\ calls[j] = 3

\* C7: a browser attempt that fails with a DNS-resolution error makes
\* fetchHtml fail at once, at any attempt number: no backoff delay is added
\* for it and no further call of fetchWithBrowserInstance follows.
C7_DnsFailsAtOnce ==
  \A j \in Jobs :
    lastError[j] = "dns" =>
      /\ Failing(j)
      /\ Len(waits[j]) = attempt[j]
      /\ calls[j] = attempt[j] + 1

C7_Witness == \E j \in Jobs : lastError[j] = "dns" /\ attempt[j] = 1

\* C8: a fetch that fails on a transient error (navigation timeout, network
\* failure, anti-bot block) fails only at the last allowed attempt.
C8_TransientRetried ==
  \A j \in Jobs :
    (Failing(j) /\ lastError[j] \in {"timeout", "net", "blocked"})
      => attempt[j] = MAX_RETRIES - 1

\* C9: when a scrape has settled, as done or as failed, and no other scrape
\* runs on its scraper, this.browser is null and no browser of the scraper is
\* still open.
C9_BrowserReleased ==
  \A j \in Jobs :
    (pc[j] \in Terminal /\ \A k \in JobsOn(ScraperOf(j)) : pc[k] \in NotRunning)
      => /\ browser[ScraperOf(j)] = NoBrowser
         /\ openBrowsers[ScraperOf(j)] = {}

C9_Witness ==
  \E j \in Jobs : pc[j] = "failed" /\ everLaunched[ScraperOf(j)]

\* C10: the only open pages of a scraper are those of fetchWithBrowserInstance
\* calls that are in progress: a call that has returned or thrown has left
\* no page open.
C10_PagesClosedOnExit ==
  \A s \in Scrapers :
    Cardinality(PagesOfScraper(s))
      <= Cardinality({j \in JobsOn(s) : pc[j] \in PageOpen})

\* What processHtml returned for the page, once it has.
Ranked == outputs[1].links
\* For each a[href] element of the page: the url it resolves to (<< >> when
\* its href does not parse) and its trimmed text.
Resolved ==
  [i \in 1..Len(html) |->
     IF Parses(html[i].href) THEN Resolve(html[i].href, BaseUrl) ELSE << >>]
Trimmed == [i \in 1..Len(html) |-> trim(html[i].text)]
InContactPath(url) ==
  \E p \in contactPatterns : includes(pathname(url), Chars(p))
RECURSIVE SumOnce(_)
SumOnce(kws) ==
  IF kws = {} THEN 0
  ELSE LET kw == CHOOSE k \in kws : TRUE
       IN Weight(kw) + SumOnce(kws \ {kw})
KeywordSet(l) == {l.keywords[i] : i \in 1..Len(l.keywords)}

\* C14: processHtml returns every resolved url of the page exactly once, and
\* the anchor text kept for it is the first, in document order, of the longest
\* trimmed anchor texts pointing to it.
C14_LongestAnchorFirstWins ==
  outputs # << >> =>
    LET to == Resolved
        text == Trimmed
    IN /\ \A i, k \in 1..Len(Ranked) : Ranked[i].url = Ranked[k].url => i = k
       /\ \A i \in 1..Len(html) :
            to[i] # << >> => \E k \in 1..Len(Ranked) : Ranked[k].url = to[i]
       /\ \A k \in 1..Len(Ranked) :
            \E i \in 1..Len(html) :
              /\ to[i] = Ranked[k].url
              /\ Ranked[k].anchor_text = text[i]
              /\ \A m \in 1..Len(html) :
                   to[m] = Ranked[k].url =>
                     /\ Len(text[m]) <= Len(text[i])
                     /\ Len(text[m]) = Len(text[i]) => i <= m

C14_Witness ==
  /\ outputs # << >>
  /\ \E i, k \in 1..Len(html) :
       /\ i < k
       /\ Resolved[i] # << >> /\ Resolved[i] = Resolved[k]
       /\ Trimmed[i] # Trimmed[k]
       /\ Len(Trimmed[i]) = Len(Trimmed[k])

\* C15: the list processHtml / rankLinks returns is in non-increasing order of
\* score, and links of equal score keep the order of the deduplicated
\* extraction.
C15_SortedStable ==
  outputs # << >> =>
    LET order == Extracted(html).uniqueLinks IN
      \A i, k \in 1..Len(Ranked) :
        i < k =>
          /\ Ranked[i].score >= Ranked[k].score
          /\ Ranked[i].score = Ranked[k].score
               => KeyIndex(order, Ranked[i].url) < KeyIndex(order, Ranked[k].url)

C15_Witness ==
  /\ outputs # << >>
  /\ \E i, k \in 1..Len(Ranked) :
       i < k /\ Ranked[i].score = Ranked[k].score /\ Ranked[i].score > 0
  /\ \E i, k \in 1..Len(Ranked) : Ranked[i].score > Ranked[k].score

\* C16: the score of every returned link is the sum of the weights of its
\* matched keywords, each counted once, times the multiplier of its type, and
\* is 0 when no keyword matched.
C16_ScoreFormula ==
  outputs # << >> =>
    \A k \in 1..Len(Ranked) :
      /\ Ranked[k].score * 10
           = SumOnce(KeywordSet(Ranked[k])) * typeMultipliers(Ranked[k].type)
      /\ KeywordSet(Ranked[k]) = {} => Ranked[k].score = 0

\* C17: no keyword occurs twice in the keyword list of a returned link, and
\* a url with a document extension has the keyword document exactly once.
C17_KeywordsAreASet ==
  outputs # << >> =>
    \A k \in 1..Len(Ranked) :
      /\ \A i, m \in 1..Len(Ranked[k].keywords) :
           Ranked[k].keywords[i] = Ranked[k].keywords[m] => i = m
      /\ isDocument(Ranked[k].url) =>
           Cardinality({i \in 1..Len(Ranked[k].keywords) :
                          Ranked[k].keywords[i] = "document"}) = 1

\* C18: the type of a returned link is contact when its path contains a
\* contact fragment, whatever its keywords; otherwise document when document
\* is a keyword, otherwise contact when contact is one, otherwise general.
C18_TypePrecedence ==
  outputs # << >> =>
    \A k \in 1..Len(Ranked) :
      LET l == Ranked[k] IN
        /\ l.type \in {"document", "contact", "general"}
        /\ l.type = (IF InContactPath(l.url) THEN "contact"
                     ELSE IF "document" \in KeywordSet(l) THEN "document"
                     ELSE IF "contact" \in KeywordSet(l) THEN "contact"
                     ELSE "general")

C18_Witness ==
  /\ outputs # << >>
  /\ \E k \in 1..Len(Ranked) :
       /\ InContactPath(Ranked[k].url)
       /\ "document" \in KeywordSet(Ranked[k])
       /\ Ranked[k].type = "contact"

C13_HttpBodyOrBrowser ==
  \A j \in Jobs :
    http[j] # NoHttp =>
      LET r == http[j]
          sufficient == /\ r.status \in 200..299
                        /\ r.length >= 500
                        /\ r.marker
                        /\ ~r.indicator
      IN IF sufficient
         THEN pc[j] = "process" /\ calls[j] = 0
         ELSE pc[j] = "gate" /\ calls[j] = 1 /\ outcome[j] = "none"

C13_Witness ==
  \E j \in Jobs :
    /\ pc[j] = "gate"
    /\ http[j].status = 200 /\ http[j].length < 500
    /\ http[j].marker /\ ~http[j].indicator

Stored(link) == \E r \in links : r.url = link.url
Executed(e) == \E r \in links : r.id = e.id

\* C11: when the write of one record of a batch fails, the other valid
\* records of the batch are stored all the same.
C11_OthersStored ==
  \A n \in DOMAIN aborted :
    \A i \in DOMAIN aborted[n].batch :
      Bindable(aborted[n].batch[i]) => Stored(aborted[n].batch[i])

\* C12: a batch is written all or nothing.  No state between two calls holds
\* a row of a transaction that was rolled back, and every execution of a
\* committed transaction has its row, or was skipped because its shard held
\* the url already.
C12_BatchAtomic ==
  /\ \A n \in DOMAIN aborted :
       \A i \in DOMAIN aborted[n].ran : ~Executed(aborted[n].ran[i])
  /\ \A i \in DOMAIN runs :
       \/ Executed(runs[i])
       \/ \E r \in tables[determineShard(runs[i].link.score)] :
            r.url = runs[i].link.url

\* A transaction was rolled back after it had executed a statement, in a
\* store that holds rows of committed transactions.
C12_Witness ==
  /\ links # {}
  /\ \E n \in DOMAIN aborted : Len(aborted[n].ran) >= 1

\* The results of all the pages of the query a response answered.
AllPages(r) ==
  UNION {{getLinks(r.minScore, r.keyword, p).results[i] :
            i \in 1..Len(getLinks(r.minScore, r.keyword, p).results)} :
         p \in 1..r.totalPages}

\* C20: GET /links with minScore = m returns only records whose score is at
\* least m; every stored record with score >= m that passes the keyword
\* filter is in the results of the pages 1..totalPages, and no other; with
\* m = 0.7 every returned record is a row of links_high.
C20_MinScoreFilter ==
  (response.route = "links" /\ response.status = 200) =>
    LET m == response.minScore
        expected == {r \in links : r.score >= m
                                   /\ keywordCondition(r, response.keyword)}
    IN /\ \A i \in 1..Len(response.results) : response.results[i].score >= m
       /\ {x.id : x \in AllPages(response)} = {r.id : r \in expected}
       /\ response.totalResultsCount = Cardinality(expected)
       /\ response.page \in 1..response.totalPages =>
            \A i \in 1..Len(response.results) :
              response.results[i] \in AllPages(response)
       /\ m = HighMin =>
            \A i \in 1..Len(response.results) :
              \E r \in links_high : r.id = response.results[i].id

\* The second page of a query with minScore 0.3 holds a record while the
\* store holds a record below 0.3.
C20_Witness ==
  /\ response.route = "links"
  /\ response.status = 200
  /\ response.minScore = MediumMin
  /\ response.page = 2
  /\ Len(response.results) >= 1
  /\ \E r \in links : r.score < MediumMin

\* The filtered union of the shards in the order of the query a response
\* answered.
Ordering(r) ==
  OrderByScoreDesc(SelectSeq(combined_links(r.minScore),
                             LAMBDA x : keywordCondition(x, r.keyword)))

PageIds(r, p) ==
  LET body == getLinks(r.minScore, r.keyword, p).results
  IN {body[i].id : i \in 1..Len(body)}

\* C21: the filtered union is ordered by score descending; page p holds the
\* entries at positions (p-1)*pageSize+1 .. p*pageSize of that ordering, as
\* far as they exist; two different pages share no entry; totalPages is the
\* least number of pages that holds totalResultsCount entries.
C21_PagesOfTheOrdering ==
  (response.route = "links" /\ response.status = 200) =>
    LET ord == Ordering(response)
        first == (response.page - 1) * pageSize
        left == Len(ord) - first
        n == IF left <= 0 THEN 0 ELSE IF left < pageSize THEN left ELSE pageSize
    IN /\ \A i \in 1..(Len(ord) - 1) : ord[i].score >= ord[i + 1].score
       /\ Len(ord) = response.totalResultsCount
       /\ Len(response.results) = n
       /\ \A i \in 1..n : response.results[i].id = ord[first + i].id
       /\ \A q \in 1..response.totalPages :
            q # response.page =>
              PageIds(response, q) \cap PageIds(response, response.page) = {}
       /\ response.totalPages * pageSize >= response.totalResultsCount
       /\ (response.totalPages - 1) * pageSize < response.totalResultsCount

\* A second page with an entry, in a query over all scores whose ordering
\* holds two entries of equal score.
C21_Witness ==
  /\ response.route = "links"
  /\ response.status = 200
  /\ response.minScore = 0
  /\ response.page = 2
  /\ Len(response.results) >= 1
  /\ \E a, b \in links : a.id # b.id /\ a.score = b.score

\* C23: GET /links/:id answers with the stored record of that id when a shard
\* holds one, and with 404, error = true and "Link not found" when none does;
\* the record it returns never has another id.
C23_LinkById ==
  response.route = "link" =>
    IF \E r \in links : r.id = response.id
    THEN /\ response.status = 200
         /\ ~response.error
         /\ Len(response.results) = 1
         /\ response.results[1].id = response.id
         /\ \E r \in links :
              response.results[1] = [r EXCEPT !.keywords = JSONparse(@)]
    ELSE /\ response.status = 404
         /\ response.error
         /\ response.message = "Link not found"
         /\ response.results = << >>

\* The record of an id is returned from the low shard while the other shards
\* hold records too.
C23_Witness ==
  /\ response.route = "link"
  /\ response.status = 200
  /\ \E r \in links_low : r.id = response.id
  /\ links_high # {}
  /\ links_medium # {}

\* A text that is a decimal numeral: digits only, at least one.
IsNumeral(s) == Len(s) > 0 /\ \A i \in 1..Len(s) : s[i] \in DOMAIN DigitOf

\* A text that is a decimal number: a numeral, or two numerals joined by a point.
IsNumber(s) ==
  \/ IsNumeral(s)
  \/ \E k \in 2..(Len(s) - 1) :
       /\ s[k] = "."
       /\ IsNumeral(SubSeq(s, 1, k - 1))
       /\ IsNumeral(SubSeq(s, k + 1, Len(s)))

\* C22 (GET /links): a request whose minScore is not a number, or whose page
\* is not an integer >= 1, is answered 400 and no statement is run on the
\* store.
C22_InvalidRejected ==
  response.route = "links" =>
    LET minScore == response.asked[1]
        page == response.asked[2]
        valid == /\ IsNumber(minScore)
                 /\ IsNumeral(page) /\ DigitsValue(page, 0) >= 1
    IN ~valid => (response.status = 400 /\ response.queries = 0)

\* C29: invalidUrls is the number of anchors whose href does not resolve;
\* none of them is in the output, and every anchor that resolves is: its url
\* is the url of a returned link.
C29_InvalidCountedAndSkipped ==
  outputs # << >> =>
    LET bad == {i \in 1..Len(html) : Resolved[i] = << >>}
        good == (1..Len(html)) \ bad
        urls == {Ranked[k].url : k \in 1..Len(Ranked)}
    IN /\ outputs[1].invalidUrls = Cardinality(bad)
       /\ urls = {Resolved[i] : i \in good}
       /\ \A k \in 1..Len(Ranked) : Parses(Ranked[k].url)

\* A page whose second anchor does not resolve, between two that do, has
\* been processed.
C29_Witness ==
  /\ outputs # << >>
  /\ Len(html) = 3
  /\ Resolved[1] # << >> /\ Resolved[2] = << >> /\ Resolved[3] # << >>
  /\ Resolved[1] # Resolved[3]

\* The text between the first two single quotes of a script: the target of
\* its redirect.
RedirectTarget(content) ==
  LET quotes == {i \in 1..Len(content) : content[i] = "'"}
      open == CHOOSE i \in quotes : \A k \in quotes : i <= k
      close == CHOOSE i \in quotes \ {open} : \A k \in quotes \ {open} : i <= k
  IN SubSeq(content, open + 1, close - 1)

\* C28: every redirect target of an inline script of the page, resolved
\* against the base url, is the url of a returned link.
C28_ScriptRedirectsAdded ==
  outputs # << >> =>
    \A i \in 1..Len(html) :
      "script" \in DOMAIN html[i] =>
        \E k \in 1..Len(Ranked) :
          Ranked[k].url = Resolve(RedirectTarget(html[i].script), BaseUrl)

\* ------------------------------------------------------------ POST /scrape
\* Where a job is inside fetchHtml.
Fetching == {"http", "gate", "backoff"} \cup InTry

\* C24: within one scrape job the phases follow one another.  A job reaches
\* processHtml only from a fetch that returned (the HTTP body, or the content
\* of a page that was read and closed); the store is written only in the step
\* of a job that holds the ranked links of processHtml; a job that failed
\* never fetches, processes or writes again.
C24_PhasesInOrder ==
  [][/\ \A j \in Jobs :
          /\ (pc[j] # "process" /\ pc'[j] = "process")
               => pc[j] \in {"http", "pageClose"}
          /\ (result'[j] # result[j] /\ result'[j] # NoResult)
               => /\ pc[j] = "process"
                  /\ result'[j][1] \in ScrapedPages
                  /\ \A i \in DOMAIN result'[j][1] :
                       \E r \in UNION {tables'[s] : s \in ShardNames} :
                         r.url = result'[j][1][i].url
          /\ outcome[j] = "failed"
               => /\ outcome'[j] = "failed"
                  /\ pc'[j] \in {"cleanup", "closing", "failed"}
                  /\ result'[j] = NoResult
     /\ storeVars' # storeVars
          => \E j \in Jobs :
               /\ pc[j] = "process" /\ outcome[j] = "none"
               /\ result'[j] # NoResult
    ]_vars

C24_Witness ==
  \E j \in Jobs :
    /\ pc[j] = "cleanup" /\ outcome[j] = "done"
    /\ result[j] # NoResult /\ Len(result[j][1]) = 2
    /\ \A i \in DOMAIN result[j][1] : Stored(result[j][1][i])

\* C25: a scrape whose fetch and extraction succeeded returns the ranked
\* links to its caller, whatever became of the write to the store.
C25_ReturnsWhateverPersistence ==
  \A j \in Jobs :
    (pc[j] = "cleanup" /\ lastError[j] = "none")
      => (outcome[j] = "done" /\ result[j] # NoResult)

\* C30: POST /scrape answers a valid url only when scrape has settled, its
\* links stored and its browser closed: 202 with processed the number of
\* links scrape returned and estimatedScore the sum of their scores when it
\* resolved, an error response when it rejected.
C30_RespondsAfterScrape ==
  /\ [](\A j \in Jobs :
          /\ reply[j].at = "awaiting" => pc[j] \notin NotRunning
          /\ (reply[j].at = "sent" /\ reply[j].status # 400)
               => /\ pc[j] \in Terminal
                  /\ (reply[j].status = 202 /\ ~reply[j].error) <=> pc[j] = "done"
                  /\ reply[j].error <=> pc[j] = "failed")
  /\ [][\A j \in Jobs :
          (reply[j].at = "awaiting" /\ reply'[j].at = "sent" /\ outcome[j] = "done")
            => /\ result[j] # NoResult
               /\ \A i \in DOMAIN result[j][1] : Stored(result[j][1][i])
               /\ browser[ScraperOf(j)] = NoBrowser \/ pc[j] = "closing"
               /\ reply'[j].processed = Len(result[j][1])
               /\ reply'[j].estimatedScore = SumScores(result[j][1])
     ]_vars

C30_Witness ==
  \E j \in Jobs :
    /\ reply[j].at = "sent" /\ reply[j].status = 202
    /\ reply[j].processed = 2 /\ reply[j].estimatedScore > 0
    /\ pc[j] = "done"

\* ------------------------------------------------ one scraper, many callers
Launching(s) == {j \in Jobs : ScraperOf(j) = s /\ pc[j] = "launching"}

\* C26: whatever the interleaving of getBrowser, close() and 'disconnected',
\* a scraper has at most one launch under way, and every browser it launched
\* that is still open is the one this.browser refers to.
C26_BrowserHandleProtected ==
  \A s \in Scrapers :
    /\ Cardinality(Launching(s)) <= 1
    /\ \A b \in openBrowsers[s] : browser[s] = b

\* C27: a caller that finds activeRequests at maxConcurrent stays in the wait
\* loop, where it holds no browser and opens no page (pages are opened by
\* callers past the gate only); once slots are given back it leaves the
\* loop: no caller waits forever.
C27_WaitersProceed ==
  /\ [](\A j \in Jobs : pc[j] = "gate" => handle[j] = NoBrowser)
  /\ [][/\ \A j \in Jobs :
            (pc[j] = "gate" /\ activeRequests[ScraperOf(j)] >= maxConcurrent)
              => pc'[j] = "gate"
        /\ ~(pages' \subseteq pages)
             => \E k \in Jobs : pc[k] = "newPage" /\ pc'[k] = "page"
       ]_vars
  /\ \A j \in Jobs : (pc[j] = "gate") ~> (pc[j] # "gate")

C27_Witness ==
  \E j, k \in Jobs :
    /\ pc[j] = "gate" /\ pc[k] = "page"
    /\ ScraperOf(j) = ScraperOf(k)
    /\ activeRequests[ScraperOf(j)] >= maxConcurrent

\* --------------------------------------------------- the scraper's counters
\* C33: activeRequests of a LinkScraper is the number of its
\* fetchWithBrowserInstance calls that are past the gate and have not
\* finished; it is never negative.
C33_ActiveRequestsCounts ==
  \A s \in Scrapers :
    /\ activeRequests[s] >= 0
    /\ activeRequests[s]
         = Cardinality({j \in Jobs : ScraperOf(j) = s /\ pc[j] \in InTry})

\* C34: the close() of a scrape that ends does not take the browser away
\* from another scrape of the same LinkScraper that holds it for a page it
\* has open or is about to open.
C34_CloseSparesOtherJobs ==
  [][\A j \in Jobs :
       (pc[j] = "cleanup" /\ pc'[j] # "cleanup")
         => \A k \in Jobs \ {j} :
              (/\ ScraperOf(k) = ScraperOf(j)
               /\ pc[k] \in {"newPage"} \cup PageOpen
               /\ handle[k] \in openBrowsers[ScraperOf(k)])
                => handle[k] \in openBrowsers'[ScraperOf(k)]
    ]_vars

\* No scrape is running on scraper s.
Quiet(s) == \A k \in Jobs : ScraperOf(k) = s => pc[k] \in NotRunning
Settled(s) == {k \in Jobs : ScraperOf(k) = s /\ pc[k] \in Terminal}

\* C35: a LinkScraper serves one scrape after another.  Between scrapes it
\* holds no browser and its counter is below maxConcurrent, so the next
\* scrape passes the gate as soon as it reaches it and its first getBrowser
\* launches a browser of its own.
C35_ReusableInSequence ==
  /\ \A s \in Scrapers :
       Quiet(s) => /\ browser[s] = NoBrowser
                   /\ openBrowsers[s] = {}
                   /\ activeRequests[s] < maxConcurrent
  /\ \A j \in Jobs :
       /\ pc[j] = "gate" => activeRequests[ScraperOf(j)] < maxConcurrent
       /\ (pc[j] = "getBrowser" /\ calls[j] = 1) => ~Connected(ScraperOf(j))
       /\ (pc[j] = "newPage" /\ calls[j] = 1)
            => /\ handle[j] = NewBrowser(j)
               /\ PagesOn(ScraperOf(j), handle[j]) = {}

C35_Witness ==
  \E j \in Jobs :
    /\ pc[j] = "page" /\ calls[j] = 1
    /\ Cardinality(Settled(ScraperOf(j))) = NumJobs - 1
    /\ activeRequests[ScraperOf(j)] <= 0

\* The first n of the delays 1000 ms, 2000 ms, 4000 ms.
Delays(n) == SubSeq(<<1000, 2000, 4000>>, 1, n)

\* C36: fetchHtml has slept once after each browser attempt that was
\* retried, 1000 ms after attempt 0 and 2000 ms after attempt 1, and not
\* after the attempt it failed on: the last allowed one, a DNS failure or an
\* error that is not retryable.
C36_ExponentialBackoff ==
  \A j \in Jobs :
    /\ Len(waits[j]) <= MAX_RETRIES - 1
    /\ waits[j] = Delays(Len(waits[j]))
    /\ pc[j] = "backoff" => Len(waits[j]) = attempt[j] + 1
    /\ (pc[j] \in {"gate", "cleanup"} \cup InTry) => Len(waits[j]) = attempt[j]

C36_Witness ==
  \E j \in Jobs :
    /\ Failing(j) /\ lastError[j] \in Retryable
    /\ waits[j] = <<1000, 2000>>

\* C37: a fetchHtml that fails throws the error of its last browser attempt.
\* The "Max retries exceeded" error is never thrown, and no scrape fails on
\* the error of the HTTP attempt: after it the browser path is taken.
C37_LastAttemptsError ==
  \A j \in Jobs :
    /\ lastError[j] # "maxRetries"
    /\ pc[j] = "backoff" => attempt[j] + 1 < MAX_RETRIES
    /\ (Failing(j) /\ lastError[j] # "none")
         => /\ lastError[j] \in ErrorKinds
            /\ calls[j] = attempt[j] + 1
    /\ (http[j] # NoHttp /\ ~HttpReturns(http[j]))
         => (pc[j] = "gate" /\ outcome[j] = "none")

C37_Witness ==
  \E j \in Jobs :
    /\ Failing(j) /\ lastError[j] = "net"
    /\ attempt[j] = MAX_RETRIES - 1

\* ------------------------------------------------------- stored records
\* The text is a JSON array of strings: [ "a" , "b" ].
RECURSIVE IsItems(_)
IsItems(tokens) ==
  /\ Len(tokens) >= 3
  /\ tokens[1] = "\"" /\ tokens[3] = "\""
  /\ tokens[2] \notin {"[", "]", ",", "\""}
  /\ \/ Len(tokens) = 3
     \/ /\ Len(tokens) > 4 /\ tokens[4] = ","
        /\ IsItems(SubSeq(tokens, 5, Len(tokens)))
IsJsonArray(tokens) ==
  /\ Len(tokens) >= 2
  /\ tokens[1] = "[" /\ tokens[Len(tokens)] = "]"
  /\ Len(tokens) = 2 \/ IsItems(SubSeq(tokens, 2, Len(tokens) - 1))

\* The link passed to the statement execution that was given this id.
WrittenAs(id) == runs[CHOOSE i \in DOMAIN runs : runs[i].id = id].link

UrlsWritten ==
  {runs'[i].link.url : i \in (Len(runs) + 1)..Len(runs')}
    \cup (IF Len(aborted') > Len(aborted)
          THEN {aborted'[Len(aborted')].batch[i].url :
                  i \in DOMAIN aborted'[Len(aborted')].batch}
          ELSE {})

FirstAt(url) ==
  CHOOSE i \in 1..Len(html) :
    Resolved[i] = url /\ \A k \in 1..(i - 1) : Resolved[k] # url

\* C40: a url whose entry was replaced by a later, longer anchor text keeps
\* the place of its first occurrence: the extraction lists the urls in the
\* order of their first occurrence in the page, and so does the ranking for
\* links of equal score.
C40_FirstOccurrenceOrder ==
  outputs # << >> =>
    LET order == Extracted(html).uniqueLinks IN
      /\ \A i, k \in 1..Len(order) :
           i < k => FirstAt(order[i].url) < FirstAt(order[k].url)
      /\ \A i, k \in 1..Len(Ranked) :
           (i < k /\ Ranked[i].score = Ranked[k].score)
             => FirstAt(Ranked[i].url) < FirstAt(Ranked[k].url)

C40_Witness ==
  /\ outputs # << >>
  /\ \E a, b, c \in 1..Len(html) :
       /\ a < b /\ b < c
       /\ Resolved[a] # << >> /\ Resolved[a] = Resolved[c]
       /\ Resolved[b] # << >> /\ Resolved[b] # Resolved[a]
       /\ Len(Trimmed[c]) > Len(Trimmed[a])
       /\ \E i, k \in 1..Len(Ranked) :
            /\ i < k
            /\ Ranked[i].url = Resolved[a] /\ Ranked[i].anchor_text = Trimmed[c]
            /\ Ranked[k].url = Resolved[b]
            /\ Ranked[i].score = Ranked[k].score

\* ------------------------------------------------------- response bodies
\* The bodies of the responses sent so far that are still on record.
Sent ==
  {k \in Jobs : reply[k].at = "sent"}
Envelope(body) == DOMAIN body = {"error", "message", "data"}

\* C31: every response of GET /links, GET /links/:id and POST /scrape has
\* exactly the fields error, message and data; error is false in a response
\* with a success status and true in one with an error status.
C31_Envelope ==
  /\ response.route # "none" =>
       /\ Envelope(response.body)
       /\ response.body.error = (response.status >= 400)
       /\ response.body.message = response.message
  /\ \A k \in Sent :
       /\ Envelope(reply[k].body)
       /\ reply[k].body.error = (reply[k].status >= 400)
       /\ reply[k].body.message = reply[k].message

C31_Witness ==
  /\ response.route = "links" /\ response.status = 200
  /\ \E j, k \in Sent : reply[j].status = 202 /\ reply[k].status >= 400

====
